---- MODULE Spec2Model ----
(***************************************************************************)
(* Model of the MMS reports client (TCP / TPKT / COTP / MMS).              *)
(*                                                                         *)
(* The inbound half of the socket is a sequence of chunks `rx`: each chunk *)
(* is a non-empty byte sequence that one sock.recv() can return (or a      *)
(* prefix of it), or the marker TimeoutGap, a silence longer than the      *)
(* socket timeout.  When `rx` is empty the next sock.recv() returns b""    *)
(* if the peer has closed, and raises socket.timeout otherwise.            *)
(***************************************************************************)
EXTENDS Integers, Sequences, FiniteSets, TLC

VARIABLES
    rx,          \* inbound chunks not yet consumed by the client
    peerClosed,  \* the peer has closed its side of the connection
    wire,        \* ghost: the frames the peer wrote, not yet consumed
    sync,        \* ghost: the client's read position is on a frame boundary
    last,        \* outcome of the operation that made the last step; under
                 \* SpecBatcher, the state of victoriametrics_push
    sock,        \* MMSReportsClient._sock: "None" or "open"
    pc,          \* where the client's current call is blocked, or "idle"
    call,        \* the call in progress or last made, with its arguments
    todo,        \* enable_reporting: the SetRCBValues PDUs still to send
    log,         \* what the current call has sent and received so far, in order
    outcome,     \* how the last finished call ended
    invoke_id,   \* asn1_codec._invoke_id
    delivered,   \* the reports handed to the report callback on this connection
    pending,     \* ghost: what the client sent that the peer has not answered
    ready,       \* ghost: the Initiate response was received on this connection
    lastEnd,     \* ghost: what ended the last wait of _recv_until_response
    calls,       \* number of API calls made
    faults,      \* number of faults injected
    nreports     \* number of reports the peer has sent

fvars == <<rx, peerClosed, wire, sync, last>>

svars == <<sock, pc, call, todo, log, outcome, invoke_id, delivered, pending,
           ready, lastEnd, calls, faults, nreports>>

vars == <<rx, peerClosed, wire, sync, last, sock, pc, call, todo, log, outcome,
          invoke_id, delivered, pending, ready, lastEnd, calls, faults, nreports>>

-----------------------------------------------------------------------------
(* Bounds of the model *)

MaxPayloadLen == 1      \* enumerated payloads have 0..MaxPayloadLen bytes
LongLen == 253          \* one long payload, so that 4+len needs two bytes
MaxSplit == 5           \* a frame is cut into two chunks at 1..MaxSplit
MaxInFlight == 2        \* frames the peer may have written and not yet read

TPKT_VERSION == 3

-----------------------------------------------------------------------------
(* Python byte strings: 0-based indexing and slices *)

Min(a, b) == IF a < b THEN a ELSE b

At(s, i) == s[i + 1]

\* s[a:b] with Python's clamping (a, b >= 0)
Slice(s, a, b) == SubSeq(s, a + 1, Min(b, Len(s)))

\* s[a:]
From(s, a) == SubSeq(s, a + 1, Len(s))

TimeoutGap == <<-1>>

RECURSIVE Flatten(_)
\* the bytes of a chunk sequence, gaps left out
Flatten(chunks) ==
    IF chunks = <<>> THEN <<>>
    ELSE IF Head(chunks) = TimeoutGap THEN Flatten(Tail(chunks))
    ELSE Head(chunks) \o Flatten(Tail(chunks))

-----------------------------------------------------------------------------
(* socket.recv(n) on the inbound chunks *)

SockRecv(chunks, closed, n) ==
    IF chunks = <<>> THEN
        IF closed THEN [kind |-> "data", data |-> <<>>, rest |-> <<>>]
        ELSE [kind |-> "timeout", data |-> <<>>, rest |-> <<>>]
    ELSE IF Head(chunks) = TimeoutGap THEN
        [kind |-> "timeout", data |-> <<>>, rest |-> Tail(chunks)]
    ELSE LET c == Head(chunks)
             k == Min(n, Len(c))
         IN [kind |-> "data",
             data |-> SubSeq(c, 1, k),
             rest |-> IF k < Len(c) THEN <<From(c, k)>> \o Tail(chunks)
                      ELSE Tail(chunks)]

-----------------------------------------------------------------------------
(* tpkt.py *)

send_tpkt_shortlen(payload) ==
    LET length == 3 + Len(payload)
    IN IF length > 65535 THEN [raised |-> TRUE, bytes |-> <<>>]
       ELSE [raised |-> FALSE,
             bytes |-> <<TPKT_VERSION, 0, length \div 256, length % 256>> \o payload]

\* send_tpkt refusing a total length of 0xFFFF too
send_tpkt_ge(payload) ==
    LET length == 4 + Len(payload)
    IN IF length >= 65535 THEN [raised |-> TRUE, bytes |-> <<>>]
       ELSE [raised |-> FALSE,
             bytes |-> <<TPKT_VERSION, 0, length \div 256, length % 256>> \o payload]

\* send_tpkt: the bytes handed to sock.sendall, or the TPKTError
send_tpkt(payload) ==
    LET length == 4 + Len(payload)
    IN IF length > 65535 THEN [raised |-> TRUE, bytes |-> <<>>]
       ELSE [raised |-> FALSE,
             bytes |-> <<TPKT_VERSION, 0, length \div 256, length % 256>> \o payload]

RECURSIVE recv_exact_loop(_, _, _, _)
recv_exact_loop(chunks, closed, remaining, acc) ==
    IF remaining <= 0 THEN [kind |-> "ok", data |-> acc, rest |-> chunks]
    ELSE LET r == SockRecv(chunks, closed, remaining)
         IN IF r.kind = "timeout" THEN
                [kind |-> "timeout", data |-> <<>>, rest |-> r.rest]
            ELSE IF r.data = <<>> THEN
                [kind |-> "none", data |-> <<>>, rest |-> r.rest]
            ELSE recv_exact_loop(r.rest, closed, remaining - Len(r.data),
                                 acc \o r.data)

\* _recv_exact: kind "ok" with the bytes, "none" for None, or "timeout"
recv_exact(chunks, closed, size) == recv_exact_loop(chunks, closed, size, <<>>)

\* the part of recv_tpkt after a complete 4-byte header was read
recv_tpkt_body(header, chunks, closed) ==
    LET ver == At(header, 0)
        reserved == At(header, 1)
        length == 256 * At(header, 2) + At(header, 3)
        to_read == length - 4
        p == recv_exact(chunks, closed, to_read)
    IN IF ver # TPKT_VERSION \/ reserved # 0 \/ length < 4 THEN
           [kind |-> "TPKTError", data |-> <<>>, rest |-> chunks]
       ELSE IF to_read = 0 THEN
           [kind |-> "ok", data |-> <<>>, rest |-> chunks]
       ELSE IF p.kind = "timeout" THEN
           [kind |-> "timeout", data |-> <<>>, rest |-> p.rest]
       ELSE IF p.kind = "none" THEN
           [kind |-> "eof", data |-> <<>>, rest |-> p.rest]
       ELSE IF Len(p.data) # to_read THEN
           [kind |-> "TPKTError", data |-> <<>>, rest |-> p.rest]
       ELSE [kind |-> "ok", data |-> p.data, rest |-> p.rest]

\* recv_tpkt raising TPKTError when the connection closes inside the header
recv_tpkt_partial_is_error(chunks, closed) ==
    LET h == recv_exact(chunks, closed, 4)
    IN IF h.kind = "timeout" THEN
           [kind |-> "timeout", data |-> <<>>, rest |-> h.rest]
       ELSE IF h.kind = "none" THEN
           [kind |-> IF Flatten(chunks) = <<>> THEN "eof" ELSE "TPKTError",
            data |-> <<>>, rest |-> h.rest]
       ELSE recv_tpkt_body(h.data, h.rest, closed)

\* recv_tpkt: "ok" with the payload, "eof" for None, or the exception raised
recv_tpkt(chunks, closed) ==
    LET h == recv_exact(chunks, closed, 4)
    IN IF h.kind = "timeout" THEN
           [kind |-> "timeout", data |-> <<>>, rest |-> h.rest]
       ELSE IF h.kind = "none" THEN
           [kind |-> "eof", data |-> <<>>, rest |-> h.rest]
       ELSE recv_tpkt_body(h.data, h.rest, closed)

-----------------------------------------------------------------------------
(* cotp.py: data transfer *)

DT_HEADER == <<2, 240, 128>>

\* cotp_send_data: the TPKT payload handed to send_tpkt
cotp_send_data(user_data) == send_tpkt(DT_HEADER \o user_data)

RECURSIVE cotp_recv_loop(_, _, _)
cotp_recv_loop(chunks, closed, n) ==
    LET r == recv_tpkt(chunks, closed)
        payload == r.data
        li == At(payload, 0)
        pdu_type == At(payload, 1)
    IN IF r.kind # "ok" THEN
           [kind |-> r.kind, data |-> <<>>, rest |-> r.rest, nframes |-> n]
       ELSE IF Len(payload) < 3 THEN
           [kind |-> "COTPError", data |-> <<>>, rest |-> r.rest, nframes |-> n + 1]
       ELSE IF pdu_type = 240 THEN
           IF li + 1 > Len(payload) THEN
               [kind |-> "COTPError", data |-> <<>>, rest |-> r.rest, nframes |-> n + 1]
           ELSE [kind |-> "ok", data |-> Slice(payload, 3, 1 + li),
                 rest |-> r.rest, nframes |-> n + 1]
       ELSE cotp_recv_loop(r.rest, closed, n + 1)

\* cotp_recv_data: "ok" with the user data, "eof" for None, or the exception;
\* nframes counts the TPKTs read on the way
cotp_recv_data(chunks, closed) == cotp_recv_loop(chunks, closed, 0)

\* _build_cr_tpdu: the bytes of the Connection Request, or ValueError
build_cr_tpdu(src_ref, dst_ref, tpdu_size, called_tsap, calling_tsap) ==
    IF ~(src_ref \in 0..65535 /\ dst_ref \in 0..65535) THEN [raised |-> TRUE, bytes |-> <<>>]
    ELSE IF ~(tpdu_size \in 0..255) THEN [raised |-> TRUE, bytes |-> <<>>]
    ELSE IF ~(called_tsap \in 0..65535 /\ calling_tsap \in 0..65535) THEN
        [raised |-> TRUE, bytes |-> <<>>]
    ELSE [raised |-> FALSE,
          bytes |-> <<17, 224, dst_ref \div 256, dst_ref % 256,
                      src_ref \div 256, src_ref % 256, 0,
                      192, 1, tpdu_size,
                      194, 2, called_tsap \div 256, called_tsap % 256,
                      193, 2, calling_tsap \div 256, calling_tsap % 256>>]

\* the CR built with the TPDU size left at _build_cr_tpdu's own default, 0x0D
cotp_connect_cr_0d == build_cr_tpdu(1, 0, 13, 1, 1).bytes

\* cotp_connect, line 115: the CR built with the defaults of cotp_connect
cotp_connect_cr == build_cr_tpdu(1, 0, 10, 1, 1).bytes

\* _parse_cc_tpdu with the check of the TPDU type left out
parse_cc_tpdu_anytype(pdu) ==
    /\ Len(pdu) >= 7
    /\ At(pdu, 0) + 1 <= Len(pdu)

\* _parse_cc_tpdu: TRUE when the TPDU is accepted as a Connection Confirm
parse_cc_tpdu(pdu) ==
    /\ Len(pdu) >= 7
    /\ At(pdu, 1) = 208
    /\ At(pdu, 0) + 1 <= Len(pdu)

\* cotp_connect after the CR is sent: the result of reading the CC
cotp_connect_recv(chunks, closed) ==
    LET r == recv_tpkt(chunks, closed)
    IN IF r.kind = "eof" THEN [r EXCEPT !.kind = "COTPError"]
       ELSE IF r.kind = "ok" /\ ~parse_cc_tpdu(r.data) THEN [r EXCEPT !.kind = "COTPError"]
       ELSE r

CC_TPDU == <<6, 208, 0, 1, 0, 1, 0>>
DR_TPDU == <<6, 128, 0, 1, 0, 1, 0>>

-----------------------------------------------------------------------------
(* asn1_codec.py: BER decoding.  A decoded Python value is a record         *)
(* [t, n, b, f]: its kind, and its integer, bytes or member list.            *)

Val(t, n, b, f) == [t |-> t, n |-> n, b |-> b, f |-> f]
NoneVal == Val("None", 0, <<>>, <<>>)
StrVal(b) == Val("str", 0, b, <<>>)
HexVal(b) == Val("hex", 0, b, <<>>)
IntVal(n) == Val("int", n, <<>>, <<>>)
BoolVal(x) == Val("bool", IF x THEN 1 ELSE 0, <<>>, <<>>)

\* Python integers are unbounded: every integer >= 2^31 - 1 is represented by
\* INT_SAT, and every BER length >= LEN_SAT (longer than any TPKT) by LEN_SAT
INT_SAT == 2147483647
LEN_SAT == 1048576

RECURSIVE BigEndian(_)
\* int.from_bytes(b, "big")
BigEndian(b) ==
    IF b = <<>> THEN 0
    ELSE IF Len(b) > 4 THEN
        IF \E i \in 1..(Len(b) - 4) : b[i] # 0 THEN INT_SAT
        ELSE BigEndian(SubSeq(b, Len(b) - 3, Len(b)))
    ELSE LET hi == BigEndian(SubSeq(b, 1, Len(b) - 1))
         IN IF hi >= 8388608 THEN INT_SAT ELSE 256 * hi + b[Len(b)]

ber_read_length(data, offset) ==
    IF offset >= Len(data) THEN [length |-> 0, n |-> 0]
    ELSE LET b == At(data, offset)
             n == b % 128
         IN IF b < 128 THEN [length |-> b, n |-> 1]
            ELSE IF offset + 1 + n > Len(data) THEN [length |-> 0, n |-> 0]
            ELSE [length |-> Min(BigEndian(Slice(data, offset + 1, offset + 1 + n)),
                                 LEN_SAT),
                  n |-> 1 + n]

ber_skip(data, offset) ==
    IF offset >= Len(data) THEN offset
    ELSE LET l == ber_read_length(data, offset + 1)
         IN offset + 1 + l.n + l.length

\* the decoders return [val, off, div]: the value, the new offset, and div when
\* a member loop of the value never ends
Dec(val, off) == [val |-> val, off |-> off, div |-> FALSE]

ber_decode_visible_string(data, offset) ==
    IF offset >= Len(data) THEN Dec(StrVal(<<>>), offset)
    ELSE LET l == ber_read_length(data, offset + 1)
             o == offset + 1 + l.n
         IN IF o + l.length > Len(data) THEN Dec(StrVal(<<>>), o)
            ELSE Dec(StrVal(Slice(data, o, o + l.length)), o + l.length)

ber_decode_unsigned(data, offset) ==
    IF offset >= Len(data) THEN Dec(IntVal(0), offset)
    ELSE LET l == ber_read_length(data, offset + 1)
             o == offset + 1 + l.n
         IN IF l.length = 0 \/ o + l.length > Len(data) THEN Dec(IntVal(0), o)
            ELSE Dec(IntVal(BigEndian(Slice(data, o, o + l.length))), o + l.length)

ber_decode_boolean(data, offset) ==
    IF offset + 3 > Len(data) \/ At(data, offset) # 131 THEN Dec(BoolVal(FALSE), offset)
    ELSE IF At(data, offset + 1) # 1 THEN Dec(BoolVal(FALSE), offset + 3)
    ELSE Dec(BoolVal(At(data, offset + 2) # 0), offset + 3)

\* octet-string and bit-string: the value bytes (shown in hex by the caller)
ber_decode_bytes(data, offset, tag) ==
    IF offset >= Len(data) \/ At(data, offset) # tag THEN Dec(HexVal(<<>>), offset)
    ELSE LET l == ber_read_length(data, offset + 1)
             o == offset + 1 + l.n
         IN IF o + l.length > Len(data) THEN Dec(HexVal(<<>>), o)
            ELSE Dec(HexVal(Slice(data, o, o + l.length)), o + l.length)

ber_decode_octet_string(data, offset) == ber_decode_bytes(data, offset, 137)

ber_decode_bit_string(data, offset) == ber_decode_bytes(data, offset, 132)

SECS_UNIX_MIN == 1000000000
EPOCH_1984 == 441763200

\* _timestamp_to_iso: the instant as Unix seconds and 1/65536ths of a second
timestamp_to_iso(sec, frac) ==
    Val("iso", (IF sec >= SECS_UNIX_MIN THEN 0 ELSE EPOCH_1984) + sec, <<frac>>, <<>>)

ber_decode_binary_time(data, offset) ==
    IF offset >= Len(data) \/ At(data, offset) # 140 THEN
        Dec(Val("binary-time?", 0, <<>>, <<>>), offset)
    ELSE LET l == ber_read_length(data, offset + 1)
             o == offset + 1 + l.n
             raw == Slice(data, o, o + l.length)
             sec == BigEndian(SubSeq(raw, 1, 4))
             frac == IF l.length >= 6 THEN BigEndian(SubSeq(raw, 5, 6)) ELSE 0
         IN IF o + l.length > Len(data) \/ l.length < 4 THEN
                Dec(Val("binary-time?", 0, <<>>, <<>>), o + l.length)
            ELSE IF 0 < sec /\ sec < 2147483647 THEN
                Dec(timestamp_to_iso(sec, frac), o + l.length)
            ELSE Dec(HexVal(raw), o + l.length)

ber_decode_utc_time(data, offset) ==
    IF offset >= Len(data) \/ At(data, offset) # 145 THEN
        Dec(Val("utc-time?", 0, <<>>, <<>>), offset)
    ELSE LET l == ber_read_length(data, offset + 1)
             o == offset + 1 + l.n
             raw == Slice(data, o, o + l.length)
             sec == BigEndian(SubSeq(raw, 1, 4))
         IN IF o + l.length > Len(data) THEN
                Dec(Val("utc-time?", 0, <<>>, <<>>), o + l.length)
            ELSE IF l.length >= 4 /\ 0 < sec /\ sec < 2147483647 THEN
                Dec(timestamp_to_iso(sec, 0), o + l.length)
            ELSE Dec(HexVal(raw), o + l.length)

\* the IEEE-754 value is kept as the bytes that determine it
ber_decode_float(data, offset) ==
    IF offset >= Len(data) \/ At(data, offset) # 135 THEN Dec(NoneVal, offset)
    ELSE LET l == ber_read_length(data, offset + 1)
             o == offset + 1 + l.n
             payload == Slice(data, o + 1, o + l.length)
         IN IF o + l.length > Len(data) \/ l.length < 5 THEN Dec(NoneVal, o + l.length)
            ELSE IF Len(payload) \in {4, 8} THEN
                Dec(Val("float", 0, payload, <<>>), o + l.length)
            ELSE Dec(HexVal(payload), o + l.length)

IsStructureTag(tag) == tag = 162 \/ tag % 32 = 32

RECURSIVE ber_decode_data_value(_, _)
RECURSIVE decode_members(_, _, _)
RECURSIVE decode_member(_, _, _, _)

\* the member loop of _ber_decode_structure and the loop of
\* _decode_mms_report_list: an iteration that does not move the offset repeats
\* for ever
decode_members(data, offset, results) ==
    IF offset >= Len(data) THEN [vals |-> results, off |-> offset, div |-> FALSE]
    ELSE decode_member(data, offset, results, ber_decode_data_value(data, offset))

\* one iteration of the loop, r being the decoded member and the new offset
decode_member(data, offset, results, r) ==
    IF r.div \/ r.off = offset THEN [vals |-> results, off |-> offset, div |-> TRUE]
    ELSE decode_members(data, r.off, Append(results, r.val))

ber_decode_structure(data, offset) ==
    IF offset >= Len(data) \/ ~IsStructureTag(At(data, offset)) THEN
        [vals |-> <<>>, off |-> offset, div |-> FALSE]
    ELSE LET l == ber_read_length(data, offset + 1)
             o == offset + 1 + l.n
             end == o + l.length
         IN IF end > Len(data) THEN [vals |-> <<>>, off |-> o, div |-> FALSE]
            ELSE [decode_members(Slice(data, o, end), 0, <<>>) EXCEPT !.off = end]

\* _ber_decode_data_value on a structure: the member list, or "<structure>"
\* when it is empty
structure_value(s) ==
    [val |-> IF s.vals # <<>> THEN Val("list", 0, <<>>, s.vals)
             ELSE Val("<structure>", 0, <<>>, <<>>),
     off |-> s.off, div |-> s.div]

ber_decode_data_value(data, offset) ==
    IF offset >= Len(data) THEN Dec(NoneVal, offset)
    ELSE LET tag == At(data, offset)
         IN IF tag \in {138, 26, 128} THEN ber_decode_visible_string(data, offset)
            ELSE IF tag = 132 THEN ber_decode_bit_string(data, offset)
            ELSE IF tag \in {133, 134} THEN ber_decode_unsigned(data, offset)
            ELSE IF tag = 131 THEN ber_decode_boolean(data, offset)
            ELSE IF tag = 137 THEN ber_decode_octet_string(data, offset)
            ELSE IF tag = 140 THEN ber_decode_binary_time(data, offset)
            ELSE IF tag = 145 THEN ber_decode_utc_time(data, offset)
            ELSE IF tag = 135 THEN ber_decode_float(data, offset)
            ELSE IF IsStructureTag(tag) THEN
                structure_value(ber_decode_structure(data, offset))
            ELSE Dec(Val("<unknown>", 0, <<>>, <<>>), ber_skip(data, offset))

Success(v) == [key |-> "success", val |-> v]

\* the entries {"success": value} of the decoded values m
success_entries(m) ==
    [entries |-> [i \in 1..Len(m.vals) |-> Success(m.vals[i])],
     off |-> m.off, div |-> m.div]

\* _decode_mms_report_list
decode_mms_report_list(data, offset) ==
    success_entries(decode_members(data, offset, <<>>))

PREFIX == <<1, 0, 1, 0>>

StartsWith(data, pre) == Len(data) >= Len(pre) /\ SubSeq(data, 1, Len(pre)) = pre

\* MMSReport(...): div is set when decode_mms_pdu never returns
MMSReport(rpt_id, data_set_name, seq_num, time_of_entry, buf_ovfl, entries) ==
    [rpt_id |-> rpt_id, data_set_name |-> data_set_name, seq_num |-> seq_num,
     time_of_entry |-> time_of_entry, buf_ovfl |-> buf_ovfl, entries |-> entries,
     raw_pdu |-> <<>>, has_raw_pdu |-> FALSE, div |-> FALSE]

\* the fallback MMSReport(entries=[{"raw_hex": pdu.hex()}])
RawHexReport(pdu) ==
    MMSReport(NoneVal, NoneVal, NoneVal, NoneVal, NoneVal,
              <<[key |-> "raw_hex", val |-> HexVal(pdu)]>>)

EntryOrNone(entries, i) == IF Len(entries) > i THEN entries[i + 1].val ELSE NoneVal

\* the report built with seq_num taken from entry 1, the OptFlds
report_of_entries_optflds(pdu, d) ==
    IF d.div THEN [RawHexReport(pdu) EXCEPT !.div = TRUE]
    ELSE IF d.entries = <<>> THEN RawHexReport(pdu)
    ELSE MMSReport(EntryOrNone(d.entries, 0), EntryOrNone(d.entries, 4),
                   EntryOrNone(d.entries, 1), EntryOrNone(d.entries, 3),
                   EntryOrNone(d.entries, 5), d.entries)

\* decode_mms_pdu, the report built from the decoded entries (lines 583-610)
report_of_entries(pdu, d) ==
    IF d.div THEN [RawHexReport(pdu) EXCEPT !.div = TRUE]
    ELSE IF d.entries = <<>> THEN RawHexReport(pdu)
    ELSE MMSReport(EntryOrNone(d.entries, 0), EntryOrNone(d.entries, 4),
                   EntryOrNone(d.entries, 2), EntryOrNone(d.entries, 3),
                   EntryOrNone(d.entries, 5), d.entries)

\* decode_mms_pdu, from the listOfAccessResult on (lines 571-582)
decode_mms_list(pdu, inner, pos0) ==
    LET l == ber_read_length(inner, pos0 + 1)
        pos == pos0 + 1 + l.n
        list_data == IF pos + l.length <= Len(inner)
                     THEN Slice(inner, pos, pos + l.length) ELSE From(inner, pos)
    IN IF pos0 >= Len(inner) \/ At(inner, pos0) # 160 THEN RawHexReport(pdu)
       ELSE report_of_entries(pdu, decode_mms_report_list(list_data, 0))

\* decode_mms_pdu, from the [0] wrapper of the unconfirmed-PDU on (lines 543-570)
decode_mms_a0(pdu, data, offset) ==
    LET l == ber_read_length(data, offset + 1)
        o == offset + 1 + l.n
        a0_content == Slice(data, o, o + l.length)
        irl == ber_read_length(a0_content, 1)
        ir_start == 1 + irl.n
        ir == Slice(a0_content, ir_start, ir_start + irl.length)
        il == ber_read_length(ir, 1)
        pos == 1 + il.n
        inner == IF pos + il.length <= Len(ir)
                 THEN Slice(ir, pos, pos + il.length) ELSE From(ir, pos)
    IN IF offset >= Len(data) \/ At(data, offset) # 160 THEN RawHexReport(pdu)
       ELSE IF Len(a0_content) < 2 \/ At(a0_content, 0) # 163 THEN RawHexReport(pdu)
       ELSE IF Len(ir) < 5 \/ At(ir, 0) # 160 THEN RawHexReport(pdu)
       ELSE IF Len(inner) < 2 \/ At(inner, 0) # 161 THEN RawHexReport(pdu)
       ELSE decode_mms_list(pdu, inner, ber_skip(inner, 0))

\* decode_mms_pdu
decode_mms_pdu(pdu) ==
    LET data0 == IF StartsWith(pdu, PREFIX) THEN From(pdu, Len(PREFIX)) ELSE pdu
        l == ber_read_length(data0, 1)
        o == 1 + l.n
        end_outer == o + l.length
        data == IF end_outer > Len(data0) THEN From(data0, o)
                ELSE Slice(data0, o, end_outer)
        sl == ber_read_length(data, 1)
        off1 == 1 + sl.n
        off2 == IF off1 + 3 <= Len(data) /\ At(data, off1) = 2
                THEN ber_skip(data, off1) ELSE off1
    IN IF Len(data0) < 4 \/ At(data0, 0) # 97 THEN RawHexReport(pdu)
       ELSE IF Len(data) < 2 \/ At(data, 0) # 48 THEN RawHexReport(pdu)
       ELSE decode_mms_a0(pdu, data, off2)

\* _is_information_report
is_information_report(report) ==
    IF report.entries = <<>> \/ Len(report.entries) # 1 THEN TRUE
    ELSE report.entries[1].key # "raw_hex"

-----------------------------------------------------------------------------
(* The framing layer on its own: the other end writes TPKTs with send_tpkt   *)
(* and cotp_send_data, the client reads them with recv_tpkt and              *)
(* cotp_recv_data.                                                           *)

LongPayload == [i \in 1..LongLen |-> 65]

RECURSIVE SeqsUpTo(_, _)
SeqsUpTo(S, n) ==
    IF n = 0 THEN {<<>>}
    ELSE LET shorter == SeqsUpTo(S, n - 1)
         IN shorter \cup {Append(q, b) : q \in {t \in shorter : Len(t) = n - 1}, b \in S}

PayloadBytes == {65, 66}

\* payloads handed to send_tpkt by the other end
RawPayloads == SeqsUpTo(PayloadBytes, MaxPayloadLen) \cup {LongPayload}

\* user data handed to cotp_send_data by the other end
UserData == SeqsUpTo(PayloadBytes, MaxPayloadLen)

\* TPDUs that are no well-formed DT: a CC-like TPDU, a DT whose LI overruns
OtherTpdus == {<<2, 208, 0>>, <<5, 240, 128>>}

\* what may answer a CR: a CC, a CC followed by bytes its LI does not count, a
\* CC whose LI overruns, a DR
CcTpdus == {CC_TPDU, <<6, 208, 0, 1, 0, 1, 0, 192, 1, 10>>, <<9, 208, 0, 1, 0, 1, 0>>,
            DR_TPDU}

NoFrame == [role |-> "none", id |-> 0, p |-> <<>>, dt |-> FALSE, ud |-> <<>>,
            cut |-> 0, none |-> TRUE]

\* ghost record of a frame the peer wrote: what the peer means by it (role, id),
\* its TPKT payload p, whether it is a DT TPDU carrying user data ud, and
\* cut > 0 when only cut bytes of it arrive
Frame(role, id, p, dt, ud, cut) ==
    [role |-> role, id |-> id, p |-> p, dt |-> dt, ud |-> ud, cut |-> cut,
     none |-> FALSE]

\* the chunks in which `bytes` arrive: whole, or cut in two at k, with or
\* without a silence longer than the timeout in between
Chunks(bytes, k, gap) ==
    IF k = 0 THEN <<bytes>>
    ELSE IF gap THEN <<SubSeq(bytes, 1, k), TimeoutGap, From(bytes, k)>>
    ELSE <<SubSeq(bytes, 1, k), From(bytes, k)>>

NoLast == [op |-> "none", kind |-> "none", data |-> <<>>, consumed |-> 0,
           exp |-> NoFrame, sync |-> TRUE, nframes |-> 0]

\* a frame written behind an unread one arrives whole
SplitsOf(bytes) == IF wire = <<>> THEN 0..Min(MaxSplit, Len(bytes) - 1) ELSE {0}

PeerCanWrite == ~peerClosed /\ sync /\ Len(wire) < MaxInFlight

\* the other end calls send_tpkt(p)
PeerSendTpkt ==
    \E p \in RawPayloads \cup OtherTpdus \cup CcTpdus :
        LET s == send_tpkt(p) IN
        \E k \in SplitsOf(s.bytes), gap \in BOOLEAN :
            /\ PeerCanWrite
            /\ ~s.raised
            /\ gap => k > 0
            /\ rx' = rx \o Chunks(s.bytes, k, gap)
            /\ wire' = Append(wire, Frame("tpdu", 0, p, FALSE, <<>>, 0))
            /\ last' = NoLast
            /\ UNCHANGED <<peerClosed, sync>>
            /\ UNCHANGED svars

\* the other end calls cotp_send_data(u)
PeerSendData ==
    \E u \in UserData :
        LET s == cotp_send_data(u) IN
        \E k \in SplitsOf(s.bytes), gap \in BOOLEAN :
            /\ PeerCanWrite
            /\ ~s.raised
            /\ gap => k > 0
            /\ rx' = rx \o Chunks(s.bytes, k, gap)
            /\ wire' = Append(wire, Frame("tpdu", 0, DT_HEADER \o u, TRUE, u, 0))
            /\ last' = NoLast
            /\ UNCHANGED <<peerClosed, sync>>
            /\ UNCHANGED svars

\* the connection breaks while a TPKT is in transit: only its first k bytes arrive
PeerSendTruncated ==
    \E p \in RawPayloads :
        LET s == send_tpkt(p) IN
        \E k \in 1..Min(MaxSplit, Len(s.bytes) - 1) :
            /\ PeerCanWrite
            /\ rx' = rx \o <<SubSeq(s.bytes, 1, k)>>
            /\ wire' = Append(wire, Frame("tpdu", 0, p, FALSE, <<>>, k))
            /\ peerClosed' = TRUE
            /\ last' = NoLast
            /\ UNCHANGED sync
            /\ UNCHANGED svars

PeerClose ==
    /\ ~peerClosed
    /\ peerClosed' = TRUE
    /\ last' = NoLast
    /\ UNCHANGED <<rx, wire, sync>>
    /\ UNCHANGED svars

\* ghost bookkeeping after a read that consumed n whole frames and ended r.kind
SyncAfter(r) ==
    IF r.kind \in {"ok", "eof"} THEN sync
    ELSE IF r.kind = "timeout" THEN sync /\ Flatten(r.rest) = Flatten(rx)
    ELSE FALSE

WireAfter(r, n) ==
    IF ~SyncAfter(r) \/ r.kind = "eof" THEN <<>>
    ELSE IF n >= Len(wire) THEN <<>>
    ELSE SubSeq(wire, n + 1, Len(wire))

ExpectedFrame(n) ==
    IF sync /\ n >= 1 /\ n <= Len(wire) THEN wire[n] ELSE NoFrame

\* the client calls recv_tpkt
RecvTpkt ==
    LET r == recv_tpkt(rx, peerClosed)
        n == IF r.kind = "ok" THEN 1 ELSE 0
    IN /\ rx' = r.rest
       /\ last' = [op |-> "recv_tpkt", kind |-> r.kind, data |-> r.data,
                   consumed |-> Len(Flatten(rx)) - Len(Flatten(r.rest)),
                   exp |-> ExpectedFrame(1), sync |-> sync, nframes |-> n]
       /\ sync' = SyncAfter(r)
       /\ wire' = WireAfter(r, n)
       /\ UNCHANGED peerClosed
       /\ UNCHANGED svars

\* the client calls cotp_recv_data
CotpRecvData ==
    LET r == cotp_recv_data(rx, peerClosed)
    IN /\ rx' = r.rest
       /\ last' = [op |-> "cotp_recv_data", kind |-> r.kind, data |-> r.data,
                   consumed |-> Len(Flatten(rx)) - Len(Flatten(r.rest)),
                   exp |-> ExpectedFrame(r.nframes), sync |-> sync,
                   nframes |-> r.nframes]
       /\ sync' = SyncAfter(r)
       /\ wire' = WireAfter(r, r.nframes)
       /\ UNCHANGED peerClosed
       /\ UNCHANGED svars

\* the client calls cotp_connect: the CR is sent, then the CC is read
CotpConnect ==
    LET s == send_tpkt(cotp_connect_cr)
        read == recv_tpkt(rx, peerClosed)
        r == cotp_connect_recv(rx, peerClosed)
        n == IF read.kind = "ok" THEN 1 ELSE 0
    IN /\ rx' = r.rest
       /\ last' = [op |-> "cotp_connect", kind |-> r.kind, data |-> r.data,
                   consumed |-> Len(Flatten(rx)) - Len(Flatten(r.rest)),
                   exp |-> ExpectedFrame(1), sync |-> sync, nframes |-> n,
                   sent |-> <<s.bytes>>, read |-> read.kind]
       /\ sync' = SyncAfter(read)
       /\ wire' = WireAfter(read, n)
       /\ UNCHANGED peerClosed
       /\ UNCHANGED svars

NoCall == [op |-> "none", do_get_first |-> FALSE, cb |-> FALSE, stage |-> "none"]
NoOutcome == [op |-> "none", res |-> "none"]
NoEnd == [by |-> "none", id |-> 0, req |-> 0]

\* the state of a client object after __init__, with no connection
InitSession ==
    /\ sock = "None"
    /\ pc = "idle"
    /\ call = NoCall
    /\ todo = <<>>
    /\ log = <<>>
    /\ outcome = NoOutcome
    /\ invoke_id = 300
    /\ delivered = <<>>
    /\ pending = <<>>
    /\ ready = FALSE
    /\ lastEnd = NoEnd
    /\ calls = 0
    /\ faults = 0
    /\ nreports = 0

InitFrame ==
    /\ rx = <<>>
    /\ peerClosed = FALSE
    /\ wire = <<>>
    /\ sync = TRUE
    /\ last = NoLast
    /\ InitSession

NextFrame ==
    \/ PeerSendTpkt
    \/ PeerSendData
    \/ PeerSendTruncated
    \/ PeerClose
    \/ RecvTpkt
    \/ CotpRecvData
    \/ CotpConnect

SpecFrame == InitFrame /\ [][NextFrame]_vars

-----------------------------------------------------------------------------
(* The session: one MMSReportsClient, its callers and the IED at the other    *)
(* end of the connection.                                                     *)

MaxCalls == 3           \* API calls made on the client object
MaxFaults == 1          \* faults injected by the network or the peer
MaxReports == 1         \* informationReports the peer sends
MaxQueue == 2           \* frames the peer may have written and not yet read

\* where a stalled frame is cut: inside its TPKT header, inside its payload
StallCuts == {2, MaxSplit}

INVOKE_BASE == 300

\* asn1_codec: reset_invoke_id() and _next_invoke_id()
next_invoke_id(id) == (id + 1) % 65536

\* a confirmed request as the arguments it is built from
Request(op, attr, inv) == [ev |-> op, attr |-> attr, inv |-> inv]

Event(ev) == [ev |-> ev, attr |-> "", inv |-> 0]

set_attrs_swapped ==
    <<"ResvTms", "IntgPd", "TrgOps", "OptFlds", "PurgeBuf", "EntryID", "GI", "RptEna">>

\* the attributes in the order encode_mms_set_rcb appends their PDUs
set_attrs ==
    <<"ResvTms", "IntgPd", "TrgOps", "OptFlds", "PurgeBuf", "EntryID", "RptEna", "GI">>

\* encode_mms_set_rcb: the eight write requests, each taking the next invoke-ID
encode_mms_set_rcb(id) ==
    [i \in 1..Len(set_attrs) |-> Request("Set", set_attrs[i], (id + i - 1) % 65536)]

\* encode_mms_get_rcb
encode_mms_get_rcb(id) == Request("Get", "", id)

(* What the IED writes *)

\* the TPKT header of a frame carrying p, as RFC 1006 defines it
TpktHeader(p) == <<3, 0, (Len(p) + 4) \div 256, (Len(p) + 4) % 256>>

Tlv(tag, content) == <<tag, Len(content)>> \o content

InitRespPdu == <<14, 0>>

\* a confirmed-ResponsePDU answering invoke-ID inv
ResponsePdu(inv) ==
    PREFIX \o Tlv(97, Tlv(48, <<2, 1, 3>> \o
        Tlv(160, Tlv(161, <<2, 2, inv \div 256, inv % 256>> \o <<165, 0>>))))

\* an informationReport whose listOfAccessResult holds the unsigned k
ReportPdu(k) ==
    PREFIX \o Tlv(97, Tlv(48, <<2, 1, 3>> \o
        Tlv(160, Tlv(163, Tlv(160, Tlv(161, <<>>) \o Tlv(160, <<133, 1, k>>))))))

\* an informationReport whose last value is a boolean cut short
CutReportPdu ==
    PREFIX \o Tlv(97, Tlv(48, <<2, 1, 3>> \o
        Tlv(160, Tlv(163, Tlv(160, Tlv(161, <<>>) \o Tlv(160, <<131, 1>>))))))

\* an informationReport with the tag A2 where the envelope has A1
OddReportPdu ==
    PREFIX \o Tlv(97, Tlv(48, <<2, 1, 3>> \o
        Tlv(160, Tlv(163, Tlv(160, Tlv(162, <<>>) \o Tlv(160, <<133, 1, 7>>))))))

\* an MMS PDU that is neither an informationReport nor a confirmed response:
\* a conclude-RequestPDU
ConcludePdu ==
    PREFIX \o Tlv(97, Tlv(48, <<2, 1, 3>> \o Tlv(160, <<139, 0>>)))

\* a DT TPDU whose LI counts the user data too
FullLiData(ud) == <<2 + Len(ud), 240, 128>> \o ud

Connected == sock = "open" /\ ~peerClosed /\ sync

PeerMayWrite == Connected /\ Len(wire) < MaxQueue

PeerWrites(frame) ==
    /\ rx' = rx \o <<TpktHeader(frame.p) \o frame.p>>
    /\ wire' = Append(wire, frame)

\* the IED answers the oldest thing it has been sent: CR, Initiate or a request
PeerRespond ==
    /\ PeerMayWrite
    /\ pending # <<>>
    /\ LET q == Head(pending)
       IN PeerWrites(
            IF q.ev = "CR" THEN Frame("CC", 0, CC_TPDU, FALSE, <<>>, 0)
            ELSE IF q.ev = "Initiate" THEN
                Frame("InitResp", 0, DT_HEADER \o InitRespPdu, TRUE, InitRespPdu, 0)
            ELSE Frame("response", q.inv, DT_HEADER \o ResponsePdu(q.inv), TRUE,
                       ResponsePdu(q.inv), 0))
    /\ pending' = Tail(pending)
    /\ UNCHANGED <<peerClosed, sync, last, sock, pc, call, todo, log, outcome,
                   invoke_id, delivered, ready, lastEnd, calls, faults, nreports>>

\* the IED sends an informationReport, as a standard DT TPDU (LI = 2) or as
\* one whose LI covers the user data
PeerReport ==
    \E full \in BOOLEAN :
        /\ PeerMayWrite
        /\ nreports < MaxReports
        /\ \A i \in 1..Len(pending) : pending[i].ev \notin {"CR", "Initiate"}
        /\ LET k == nreports + 1
               ud == ReportPdu(k)
           IN PeerWrites(Frame("report", k,
                               IF full THEN FullLiData(ud) ELSE DT_HEADER \o ud,
                               TRUE, ud, 0))
        /\ nreports' = nreports + 1
        /\ UNCHANGED <<peerClosed, sync, last, sock, pc, call, todo, log, outcome,
                       invoke_id, delivered, pending, ready, lastEnd, calls, faults>>

\* a frame that breaks the framing or the transport rules, or a stray TPDU
FaultFrames ==
    {Frame("badversion", 0, <<>>, FALSE, <<>>, 0),
     Frame("short", 0, <<2, 240>>, FALSE, <<>>, 0),
     Frame("stray", 0, DR_TPDU, FALSE, <<>>, 0),
     Frame("badli", 0, <<5, 240, 128>>, FALSE, <<>>, 0),
     Frame("cutreport", 0, FullLiData(CutReportPdu), TRUE, CutReportPdu, 0),
     Frame("oddreport", 0, FullLiData(OddReportPdu), TRUE, OddReportPdu, 0),
     Frame("other", 0, FullLiData(ConcludePdu), TRUE, ConcludePdu, 0)}

PeerFault ==
    \E f \in FaultFrames :
        /\ PeerMayWrite
        /\ faults < MaxFaults
        /\ rx' = rx \o <<(IF f.role = "badversion" THEN <<4, 0, 0, 4>>
                          ELSE TpktHeader(f.p) \o f.p)>>
        /\ wire' = Append(wire, f)
        /\ faults' = faults + 1
        /\ UNCHANGED <<peerClosed, sync, last, sock, pc, call, todo, log, outcome,
                       invoke_id, delivered, pending, ready, lastEnd, calls, nreports>>

\* a frame arrives in two parts, the second one late (gap) or never because
\* the connection closes (~gap): the answer to the oldest request, or a report
PeerStalls ==
    \E k \in StallCuts, gap \in BOOLEAN, answer \in BOOLEAN :
        /\ PeerMayWrite
        /\ faults < MaxFaults
        /\ \A i \in 1..Len(pending) : pending[i].ev \notin {"CR", "Initiate"}
        /\ answer => pending # <<>>
        /\ LET ud == IF answer THEN ResponsePdu(Head(pending).inv)
                     ELSE ReportPdu(MaxReports + 1)
               p == IF answer THEN DT_HEADER \o ud ELSE FullLiData(ud)
               bytes == TpktHeader(p) \o p
           IN /\ rx' = rx \o (IF gap THEN Chunks(bytes, k, TRUE)
                              ELSE <<SubSeq(bytes, 1, k)>>)
              /\ wire' = Append(wire, Frame(IF answer THEN "response" ELSE "report",
                                            IF answer THEN Head(pending).inv
                                            ELSE MaxReports + 1,
                                            p, TRUE, ud, IF gap THEN 0 ELSE k))
        /\ peerClosed' = ~gap
        /\ pending' = IF answer THEN Tail(pending) ELSE pending
        /\ faults' = faults + 1
        /\ UNCHANGED <<sync, last, sock, pc, call, todo, log, outcome, invoke_id,
                       delivered, ready, lastEnd, calls, nreports>>

\* the IED closes the connection
PeerCloses ==
    /\ sock = "open"
    /\ ~peerClosed
    /\ faults < MaxFaults
    /\ peerClosed' = TRUE
    /\ faults' = faults + 1
    /\ UNCHANGED <<rx, wire, sync, last, sock, pc, call, todo, log, outcome,
                   invoke_id, delivered, pending, ready, lastEnd, calls, nreports>>

(* What the client does *)

Received(r, n) ==
    /\ rx' = r.rest
    /\ sync' = SyncAfter(r)
    /\ wire' = WireAfter(r, n)
    /\ UNCHANGED peerClosed

\* MMSReportsClient.close, and the end of the TCP connection with it
close ==
    /\ sock' = "None"
    /\ rx' = <<>>
    /\ peerClosed' = FALSE
    /\ wire' = <<>>
    /\ sync' = TRUE
    /\ pending' = <<>>
    /\ ready' = FALSE

\* the call in progress returns (res = "ok") or raises res
Return(op, res) ==
    /\ pc' = "idle"
    /\ outcome' = [op |-> op, res |-> res]
    /\ todo' = <<>>

Finish(res) ==
    /\ pc' = "idle"
    /\ outcome' = [op |-> call.op, res |-> res]
    /\ todo' = <<>>

Begin(op, dgf, cb, stage) ==
    /\ pc = "idle"
    /\ calls < MaxCalls
    /\ calls' = calls + 1
    /\ call' = [op |-> op, do_get_first |-> dgf, cb |-> cb, stage |-> stage]
    /\ lastEnd' = NoEnd
    /\ UNCHANGED <<last, nreports>>

\* sock.sendall succeeds, or fails with OSError when the network breaks
Sendall(ok) ==
    /\ ~ok => faults < MaxFaults
    /\ faults' = IF ok THEN faults ELSE faults + 1

\* nothing to read and the peer still there: the read blocks until the peer
\* writes, or times out when the peer stays silent for too long
Silent == rx = <<>> /\ ~peerClosed

ReadEnds ==
    /\ Silent => faults < MaxFaults
    /\ faults' = IF Silent THEN faults + 1 ELSE faults

\* connect() on a client that holds a socket, with the invoke-ID counter reset
\* as at the end of a handshake
ConnectNoop_resets ==
    /\ Begin("connect", FALSE, FALSE, "none")
    /\ sock # "None"
    /\ log' = <<>>
    /\ invoke_id' = INVOKE_BASE
    /\ Return("connect", "ok")
    /\ UNCHANGED <<rx, peerClosed, wire, sync, sock, delivered, pending, ready, faults>>

\* connect() on a client that holds a socket: returns at once
ConnectNoop ==
    /\ Begin("connect", FALSE, FALSE, "none")
    /\ sock # "None"
    /\ log' = <<>>
    /\ Return("connect", "ok")
    /\ UNCHANGED <<rx, peerClosed, wire, sync, sock, invoke_id, delivered, pending,
                   ready, faults>>

\* connect(): socket.create_connection fails
ConnectTcpFails ==
    /\ Begin("connect", FALSE, FALSE, "none")
    /\ sock = "None"
    /\ faults < MaxFaults
    /\ faults' = faults + 1
    /\ log' = <<>>
    /\ Return("connect", "MMSConnectionError")
    /\ UNCHANGED <<rx, peerClosed, wire, sync, sock, invoke_id, delivered, pending,
                   ready>>

\* connect(): TCP opens and cotp_connect sends the Connection Request
ConnectStart ==
    \E ok \in BOOLEAN :
        /\ Begin("connect", FALSE, FALSE, "none")
        /\ sock = "None"
        /\ Sendall(ok)
        /\ rx' = <<>> /\ peerClosed' = FALSE /\ wire' = <<>> /\ sync' = TRUE
        /\ ready' = FALSE
        /\ delivered' = <<>>
        /\ IF ok THEN /\ sock' = "open"
                      /\ log' = <<Event("tcp_open"), Event("CR")>>
                      /\ pending' = <<Event("CR")>>
                      /\ pc' = "connect_cc"
                      /\ UNCHANGED <<outcome, todo>>
           ELSE /\ sock' = "None"
                /\ log' = <<Event("tcp_open")>>
                /\ pending' = <<>>
                /\ Return("connect", "MMSConnectionError")
        /\ UNCHANGED invoke_id

\* connect(): cotp_connect reads the Connection Confirm, then the Initiate
\* PDU is sent
ConnectRecvCC ==
    LET r == recv_tpkt(rx, peerClosed)
        valid == r.kind = "ok" /\ parse_cc_tpdu(r.data)
    IN /\ pc = "connect_cc"
       /\ UNCHANGED <<last, call, invoke_id, delivered, lastEnd, calls, nreports>>
       /\ \/ /\ ~valid
             /\ ReadEnds
             /\ close
             /\ Finish("MMSConnectionError")
             /\ UNCHANGED log
          \/ \E ok \in BOOLEAN :
                /\ valid
                /\ Sendall(ok)
                /\ Received(r, 1)
                /\ UNCHANGED <<sock, ready>>
                /\ IF ok THEN /\ log' = log \o <<Event("CC"), Event("Initiate")>>
                              /\ pending' = Append(pending, Event("Initiate"))
                              /\ pc' = "connect_init"
                              /\ UNCHANGED <<outcome, todo>>
                   ELSE /\ log' = Append(log, Event("CC"))
                        /\ Finish("OSError")
                        /\ UNCHANGED pending

\* connect(): the Initiate response is awaited, then the invoke-ID is reset
ConnectRecvInit ==
    LET r == cotp_recv_data(rx, peerClosed)
    IN /\ pc = "connect_init"
       /\ UNCHANGED <<last, call, delivered, lastEnd, calls, nreports>>
       /\ ReadEnds
       /\ \/ /\ r.kind = "ok"
             /\ Received(r, r.nframes)
             /\ invoke_id' = INVOKE_BASE
             /\ ready' = TRUE
             /\ log' = log \o <<Event("InitResp"), Event("reset_invoke_id")>>
             /\ Finish("ok")
             /\ UNCHANGED <<sock, pending>>
          \/ /\ r.kind = "eof"
             /\ close
             /\ Finish("MMSConnectionError")
             /\ UNCHANGED <<log, invoke_id>>
          \/ /\ r.kind \in {"timeout", "TPKTError", "COTPError"}
             /\ Received(r, r.nframes)
             /\ Finish(r.kind)
             /\ UNCHANGED <<sock, pending, ready, log, invoke_id>>

\* close()
Close ==
    /\ Begin("close", FALSE, FALSE, "none")
    /\ close
    /\ log' = <<>>
    /\ Return("close", "ok")
    /\ UNCHANGED <<invoke_id, delivered, faults>>

\* enable_reporting() or loop_reports() on a client without a socket, the
\* first request being encoded before the socket is looked at
CallNotConnected_encodes_first ==
    \E op \in {"enable_reporting", "loop_reports"} :
        /\ Begin(op, FALSE, FALSE, "none")
        /\ sock = "None"
        /\ log' = <<>>
        /\ invoke_id' = IF op = "enable_reporting" THEN next_invoke_id(invoke_id)
                        ELSE invoke_id
        /\ Return(op, "MMSConnectionError")
        /\ UNCHANGED <<rx, peerClosed, wire, sync, sock, delivered, pending, ready,
                       faults>>

\* enable_reporting() or loop_reports() on a client without a socket
CallNotConnected ==
    \E op \in {"enable_reporting", "loop_reports"} :
        /\ Begin(op, FALSE, FALSE, "none")
        /\ sock = "None"
        /\ log' = <<>>
        /\ Return(op, "MMSConnectionError")
        /\ UNCHANGED <<rx, peerClosed, wire, sync, sock, invoke_id, delivered,
                       pending, ready, faults>>

\* the next request of enable_reporting goes out (queue holds what is left to
\* send), or the call returns when nothing is left
SendNext(queue, ok) ==
    IF queue = <<>> THEN
        /\ ok
        /\ Finish("ok")
        /\ UNCHANGED <<log, pending, faults>>
    ELSE
        /\ Sendall(ok)
        /\ IF ok THEN /\ log' = Append(log, Head(queue))
                      /\ pending' = Append(pending, Head(queue))
                      /\ todo' = Tail(queue)
                      /\ pc' = "enable_wait"
                      /\ UNCHANGED outcome
           ELSE /\ Finish("OSError")
                /\ UNCHANGED <<log, pending>>

\* enable_reporting(): the first request is built and sent
EnableStart ==
    \E dgf \in BOOLEAN, cb \in BOOLEAN, ok \in BOOLEAN :
        /\ Begin("enable_reporting", dgf, cb, IF dgf THEN "get" ELSE "set")
        /\ sock = "open"
        /\ log' = IF ok THEN <<IF dgf THEN encode_mms_get_rcb(invoke_id)
                                ELSE Head(encode_mms_set_rcb(invoke_id))>>
                  ELSE <<>>
        /\ invoke_id' = IF dgf THEN next_invoke_id(invoke_id)
                        ELSE (invoke_id + Len(set_attrs)) % 65536
        /\ Sendall(ok)
        /\ IF ok THEN /\ pending' = Append(pending, log'[1])
                      /\ todo' = IF dgf THEN <<>> ELSE Tail(encode_mms_set_rcb(invoke_id))
                      /\ pc' = "enable_wait"
                      /\ UNCHANGED outcome
           ELSE /\ Return("enable_reporting", "OSError")
                /\ UNCHANGED pending
        /\ UNCHANGED <<rx, peerClosed, wire, sync, sock, delivered, ready>>

RoleOf(f) == IF f.none THEN "garbage" ELSE f.role

WithRawPdu(report, pdu) == [report EXCEPT !.raw_pdu = pdu, !.has_raw_pdu = TRUE]

\* _recv_until_response with the end of the stream raised as an error
EnableTurn_eof_raises(r, decoded) ==
    LET f == ExpectedFrame(r.nframes)
        forwarded == r.kind = "ok" /\ ~decoded.div
                     /\ is_information_report(decoded) /\ call.cb
        sets == encode_mms_set_rcb(invoke_id)
    IN /\ pc = "enable_wait"
       /\ Received(r, r.nframes)
       /\ UNCHANGED <<last, sock, ready, calls, nreports>>
       /\ \/ /\ r.kind \in {"timeout", "TPKTError", "COTPError"}
             /\ ReadEnds
             /\ Finish(r.kind)
             /\ UNCHANGED <<call, log, invoke_id, delivered, pending, lastEnd>>
          \/ /\ r.kind = "ok" /\ decoded.div
             /\ pc' = "hung"
             /\ UNCHANGED <<call, todo, log, outcome, invoke_id, delivered, pending,
                            lastEnd, faults>>
          \/ /\ forwarded
             /\ delivered' = Append(delivered, WithRawPdu(decoded, r.data))
             /\ UNCHANGED <<pc, call, todo, log, outcome, invoke_id, pending, lastEnd,
                            faults>>
          \/ /\ r.kind = "eof"
             /\ lastEnd' = [by |-> "eof", id |-> f.id, req |-> log[Len(log)].inv]
             /\ Finish("MMSConnectionError")
             /\ UNCHANGED <<call, log, invoke_id, delivered, pending, faults>>
          \/ \E ok \in BOOLEAN :
                /\ r.kind = "ok" /\ ~decoded.div /\ ~forwarded
                /\ lastEnd' = [by |-> RoleOf(f), id |-> f.id, req |-> log[Len(log)].inv]
                /\ call' = [call EXCEPT !.stage = "set"]
                /\ invoke_id' = IF call.stage = "get"
                                THEN (invoke_id + Len(set_attrs)) % 65536
                                ELSE invoke_id
                /\ SendNext(IF call.stage = "get" THEN sets ELSE todo, ok)
                /\ UNCHANGED delivered

\* one turn of the loop of _recv_until_response, r being what cotp_recv_data
\* returned and decoded what decode_mms_pdu makes of it, and the next request
\* of enable_reporting when the wait ends
EnableTurn(r, decoded) ==
    LET f == ExpectedFrame(r.nframes)
        forwarded == r.kind = "ok" /\ ~decoded.div
                     /\ is_information_report(decoded) /\ call.cb
        sets == encode_mms_set_rcb(invoke_id)
    IN /\ pc = "enable_wait"
       /\ Received(r, r.nframes)
       /\ UNCHANGED <<last, sock, ready, calls, nreports>>
       /\ \/ /\ r.kind \in {"timeout", "TPKTError", "COTPError"}
             /\ ReadEnds
             /\ Finish(r.kind)
             /\ UNCHANGED <<call, log, invoke_id, delivered, pending, lastEnd>>
          \/ /\ r.kind = "ok" /\ decoded.div
             /\ pc' = "hung"
             /\ UNCHANGED <<call, todo, log, outcome, invoke_id, delivered, pending,
                            lastEnd, faults>>
          \/ /\ forwarded
             /\ delivered' = Append(delivered, WithRawPdu(decoded, r.data))
             /\ UNCHANGED <<pc, call, todo, log, outcome, invoke_id, pending, lastEnd,
                            faults>>
          \/ \E ok \in BOOLEAN :
                /\ r.kind = "eof" \/ (r.kind = "ok" /\ ~decoded.div /\ ~forwarded)
                /\ lastEnd' = [by |-> IF r.kind = "eof" THEN "eof" ELSE RoleOf(f),
                               id |-> f.id, req |-> log[Len(log)].inv]
                /\ call' = [call EXCEPT !.stage = "set"]
                /\ invoke_id' = IF call.stage = "get"
                                THEN (invoke_id + Len(set_attrs)) % 65536
                                ELSE invoke_id
                /\ SendNext(IF call.stage = "get" THEN sets ELSE todo, ok)
                /\ UNCHANGED delivered

\* enable_reporting(): a response is awaited
EnableRecv ==
    LET r == cotp_recv_data(rx, peerClosed)
    IN EnableTurn(r, decode_mms_pdu(r.data))

\* loop_reports(): the heartbeat timeout is set and the loop entered
LoopStart ==
    /\ Begin("loop_reports", FALSE, TRUE, "none")
    /\ sock = "open"
    /\ log' = <<>>
    /\ pc' = "loop"
    /\ UNCHANGED <<rx, peerClosed, wire, sync, sock, todo, outcome, invoke_id,
                   delivered, pending, ready, faults>>

\* the application asks the running loop_reports to stop; loop_reports takes
\* no stop flag and reads none (lines 197-231), so the request is only noted
StopRequested ==
    /\ pc = "loop"
    /\ call.stage = "none"
    /\ call' = [call EXCEPT !.stage = "stop"]
    /\ UNCHANGED <<rx, peerClosed, wire, sync, last, sock, pc, todo, log, outcome,
                   invoke_id, delivered, pending, ready, lastEnd, calls, faults,
                   nreports>>

\* loop_reports with the end of the stream raised as an error
LoopTurn_eof_raises(r, decoded) ==
       /\ pc = "loop"
       /\ Received(r, r.nframes)
       /\ UNCHANGED <<last, sock, ready, calls, nreports, call, invoke_id,
                      pending, lastEnd, faults>>
       /\ \/ /\ r.kind = "timeout"
             /\ UNCHANGED <<pc, todo, outcome, delivered, log>>
          \/ /\ r.kind = "eof"
             /\ Finish("MMSConnectionError")
             /\ log' = Append(log, Request("eof", "", Len(Flatten(rx))))
             /\ UNCHANGED delivered
          \/ /\ r.kind \in {"TPKTError", "COTPError"}
             /\ Finish(r.kind)
             /\ UNCHANGED <<delivered, log>>
          \/ /\ r.kind = "ok" /\ decoded.div
             /\ pc' = "hung"
             /\ UNCHANGED <<todo, outcome, delivered, log>>
          \/ /\ r.kind = "ok" /\ ~decoded.div
             /\ delivered' = Append(delivered, WithRawPdu(decoded, r.data))
             /\ log' = Append(log, Request("callback",
                                           RoleOf(ExpectedFrame(r.nframes)),
                                           ExpectedFrame(r.nframes).cut))
             /\ UNCHANGED <<pc, todo, outcome>>

\* one turn of the loop of loop_reports, r being what cotp_recv_data returned
\* and decoded what decode_mms_pdu makes of it; the log keeps which frame each
\* callback was for and how many bytes were left unread at the end of stream
LoopTurn(r, decoded) ==
       /\ pc = "loop"
       /\ Received(r, r.nframes)
       /\ UNCHANGED <<last, sock, ready, calls, nreports, call, invoke_id,
                      pending, lastEnd, faults>>
       /\ \/ /\ r.kind = "timeout"
             /\ UNCHANGED <<pc, todo, outcome, delivered, log>>
          \/ /\ r.kind = "eof"
             /\ Finish("ok")
             /\ log' = Append(log, Request("eof", "", Len(Flatten(rx))))
             /\ UNCHANGED delivered
          \/ /\ r.kind \in {"TPKTError", "COTPError"}
             /\ Finish(r.kind)
             /\ UNCHANGED <<delivered, log>>
          \/ /\ r.kind = "ok" /\ decoded.div
             /\ pc' = "hung"
             /\ UNCHANGED <<todo, outcome, delivered, log>>
          \/ /\ r.kind = "ok" /\ ~decoded.div
             /\ delivered' = Append(delivered, WithRawPdu(decoded, r.data))
             /\ log' = Append(log, Request("callback",
                                           RoleOf(ExpectedFrame(r.nframes)),
                                           ExpectedFrame(r.nframes).cut))
             /\ UNCHANGED <<pc, todo, outcome>>

\* loop_reports(): the next PDU is awaited
LoopRecv ==
    LET r == cotp_recv_data(rx, peerClosed)
    IN LoopTurn(r, decode_mms_pdu(r.data))

Init ==
    /\ rx = <<>>
    /\ peerClosed = FALSE
    /\ wire = <<>>
    /\ sync = TRUE
    /\ last = NoLast
    /\ InitSession

Next ==
    \/ ConnectNoop
    \/ ConnectTcpFails
    \/ ConnectStart
    \/ ConnectRecvCC
    \/ ConnectRecvInit
    \/ Close
    \/ CallNotConnected
    \/ EnableStart
    \/ EnableRecv
    \/ LoopStart
    \/ LoopRecv
    \/ StopRequested
    \/ PeerRespond
    \/ PeerReport
    \/ PeerFault
    \/ PeerStalls
    \/ PeerCloses

Spec == Init /\ [][Next]_vars

-----------------------------------------------------------------------------
(* asn1_codec.py: the encoders, byte for byte.  The module keeps one        *)
(* invoke-ID counter (_invoke_id) for the whole process; two client        *)
(* sessions of the process build their requests with it.                    *)

\* bytes([n]) with n >= 256 raises ValueError: the encoder returns no PDU
ValueError == <<-2>>

\* tag + bytes([len(content)]) + content
Lv(tag, content) ==
    IF content = ValueError \/ Len(content) > 255 THEN ValueError
    ELSE <<tag, Len(content)>> \o content

\* a + b, when neither raised
Cat(a, b) == IF a = ValueError \/ b = ValueError THEN ValueError ELSE a \o b

\* _encode_ia5
encode_ia5(s) == Lv(26, s)

\* _encode_domain_specific_name
encode_domain_specific_name(domain_id, item_id) ==
    Cat(encode_ia5(domain_id), encode_ia5(item_id))

\* encode_mms_initiate: the replayed InitiateRequest frame
encode_mms_initiate ==
    <<13, 178, 5, 6, 19, 1, 0, 22, 1, 2, 20, 2, 0, 2, 51, 2, 0, 1, 52, 2, 0, 1,
      193, 156, 49, 129, 153, 160, 3, 128, 1, 1, 162, 129, 145, 129, 4, 0, 0, 0,
      1, 130, 4, 0, 0, 0, 1, 164, 35, 48, 15, 2, 1, 1, 6, 4, 82, 1, 0, 1, 48, 4,
      6, 2, 81, 1, 48, 16, 2, 1, 3, 6, 5, 40, 202, 34, 2, 1, 48, 4, 6, 2, 81, 1,
      97, 94, 48, 92, 2, 1, 1, 160, 87, 96, 85, 161, 7, 6, 5, 40, 202, 34, 2, 3,
      162, 7, 6, 5, 41, 1, 135, 103, 1, 163, 3, 2, 1, 12, 166, 6, 6, 4, 41, 1,
      135, 103, 167, 3, 2, 1, 12, 190, 47, 40, 45, 2, 1, 3, 160, 40, 168, 38,
      128, 3, 0, 253, 232, 129, 1, 5, 130, 1, 5, 131, 1, 10, 164, 22, 128, 1, 1,
      129, 3, 5, 241, 0, 130, 12, 3, 238, 28, 0, 0, 4, 8, 0, 0, 121, 239, 24>>

\* encode_mms_get_rcb, lines 78-91: a4 around the object name
get_rcb_a4(domain_id, item_id) ==
    Lv(164, Lv(161, Lv(160, Lv(48, Lv(160, Lv(161,
        encode_domain_specific_name(domain_id, item_id)))))))

\* the name of the attribute joined to the item with "." in place of "$"
full_item_dot(item_id, attribute) ==
    IF attribute = <<>> THEN item_id ELSE item_id \o <<46>> \o attribute

\* f"{item_id}${attribute}" if attribute else item_id
full_item(item_id, attribute) ==
    IF attribute = <<>> THEN item_id ELSE item_id \o <<36>> \o attribute

\* encode_mms_set_rcb_attribute, lines 154-169: a5 around the name block and
\* the value block
set_rcb_a5(domain_id, item_id, attribute, value) ==
    Lv(165, Cat(Lv(160, Lv(48, Lv(160, Lv(161,
                    encode_domain_specific_name(domain_id,
                                                full_item(item_id, attribute)))))),
                Lv(160, value)))

\* b"\x02\x02" + bytes([inv >> 8, inv & 0xFF])
invoke_part(inv) == <<2, 2, inv \div 256, inv % 256>>

\* the envelope both request builders put around the invoke-ID and the body
confirmed_request(inv, body) ==
    Cat(PREFIX, Lv(97, Lv(48, Cat(<<2, 1, 3>>,
        Lv(160, Lv(160, Cat(invoke_part(inv), body)))))))

\* a request builder called with the counter at id: the PDU it returns (or
\* ValueError) and the counter it leaves.  _next_invoke_id() runs once the
\* body is built, and before the envelope is
build_request(id, body) ==
    IF body = ValueError THEN [pdu |-> ValueError, id |-> id]
    ELSE [pdu |-> confirmed_request(id, body), id |-> next_invoke_id(id)]

\* encode_mms_get_rcb
encode_mms_get_rcb_pdu(domain_id, item_id, id) ==
    build_request(id, get_rcb_a4(domain_id, item_id))

\* encode_mms_set_rcb_attribute
encode_mms_set_rcb_attribute(domain_id, item_id, attribute, value, id) ==
    build_request(id, set_rcb_a5(domain_id, item_id, attribute, value))

RECURSIVE to_bytes(_)
\* val.to_bytes((val.bit_length() + 7) // 8 or 1, "big")
to_bytes(val) ==
    IF val < 256 THEN <<val>> ELSE Append(to_bytes(val \div 256), val % 256)

\* _encode_mms_value_boolean
encode_mms_value_boolean(val) == IF val THEN <<131, 1, 1>> ELSE <<131, 1, 0>>

\* _encode_mms_value_unsigned
encode_mms_value_unsigned(val) ==
    IF val < 256 THEN <<133, 1, val>>
    ELSE IF val < 65536 THEN <<134, 2, val \div 256, val % 256>>
    ELSE Lv(134, to_bytes(val))

\* _encode_mms_value_bitstring
encode_mms_value_bitstring(bits) == Lv(132, bits)

\* _encode_mms_value_octetstring
encode_mms_value_octetstring(val) == Lv(137, val)

\* the defaults of encode_mms_set_rcb, lines 187-194
DEFAULT_RESV_TMS == 5
DEFAULT_TRG_OPS == <<2, 12>>
DEFAULT_OPT_FLDS == <<6, 123, 0>>
DEFAULT_PURGE_BUF == TRUE
DEFAULT_ENTRY_ID == <<0, 0, 0, 0, 0, 0, 0, 0>>
DEFAULT_GI == TRUE

\* the characters of the attribute names that encode_mms_set_rcb writes
ascii(attribute) ==
    CASE attribute = "ResvTms" -> <<82, 101, 115, 118, 84, 109, 115>>
      [] attribute = "IntgPd" -> <<73, 110, 116, 103, 80, 100>>
      [] attribute = "TrgOps" -> <<84, 114, 103, 79, 112, 115>>
      [] attribute = "OptFlds" -> <<79, 112, 116, 70, 108, 100, 115>>
      [] attribute = "PurgeBuf" -> <<80, 117, 114, 103, 101, 66, 117, 102>>
      [] attribute = "EntryID" -> <<69, 110, 116, 114, 121, 73, 68>>
      [] attribute = "RptEna" -> <<82, 112, 116, 69, 110, 97>>
      [] attribute = "GI" -> <<71, 73>>

\* encode_mms_set_rcb, lines 212-254: the encoded value each of the eight
\* calls passes, enable_reporting giving rpt_ena and intg_pd_ms and leaving
\* the rest at the defaults
set_rcb_values(rpt_ena, intg_pd_ms) ==
    <<encode_mms_value_unsigned(DEFAULT_RESV_TMS),
      encode_mms_value_unsigned(intg_pd_ms),
      encode_mms_value_bitstring(DEFAULT_TRG_OPS),
      encode_mms_value_bitstring(DEFAULT_OPT_FLDS),
      encode_mms_value_boolean(DEFAULT_PURGE_BUF),
      encode_mms_value_octetstring(DEFAULT_ENTRY_ID),
      encode_mms_value_boolean(rpt_ena),
      encode_mms_value_boolean(DEFAULT_GI)>>

\* encode_mms_set_rcb called with the counter at id: the eight PDUs in the
\* order they are appended, the i-th built with the counter at id + i - 1, or
\* ValueError when one of the calls raises; n is the number of calls that
\* returned and id the counter left behind
encode_mms_set_rcb_pdus(domain_id, item_id, rpt_ena, intg_pd_ms, id) ==
    LET values == set_rcb_values(rpt_ena, intg_pd_ms)
        built == [i \in 1..Len(set_attrs) |->
                    encode_mms_set_rcb_attribute(domain_id, item_id,
                                                 ascii(set_attrs[i]), values[i],
                                                 (id + i - 1) % 65536)]
        bad == {i \in 1..Len(set_attrs) : built[i].pdu = ValueError}
        n == IF bad = {} THEN Len(set_attrs)
             ELSE (CHOOSE i \in bad : \A j \in bad : i <= j) - 1
    IN [pdus |-> IF bad = {} THEN [i \in 1..Len(set_attrs) |-> built[i].pdu]
                 ELSE ValueError,
        id |-> IF bad = {} THEN built[Len(set_attrs)].id ELSE built[n + 1].id,
        n |-> n]

-----------------------------------------------------------------------------
(* The codec on its own: two sessions of one process share the module's     *)
(* counter.  connect() is taken by its effect on the codec, the call         *)
(* reset_invoke_id() that ends it; `last` records the latest call: who made  *)
(* it, the bytes it returned, the base of the latest reset, the number k of  *)
(* requests built since, and the sessions that are connected.                *)

MaxBuilt == 3
MAX_INVOKE_ID == 65535

Sessions == {1, 2}
Bases == {0, INVOKE_BASE, MAX_INVOKE_ID - 1, MAX_INVOKE_ID}

\* a string of n characters c
Name(c, n) == [j \in 1..n |-> c]

DomainIds == {Name(68, n) : n \in {1, 118}}
ItemIds == {Name(73, n) : n \in {1, 118, 130}}
\* "", "GI"
Attributes == {<<>>, <<71, 73>>}
SetValues ==
    {encode_mms_value_boolean(TRUE), encode_mms_value_unsigned(2000),
     encode_mms_value_octetstring(Name(0, 8))}

Call(op, s, pdu, base, k, open, arg, res) ==
    [op |-> op, s |-> s, pdu |-> pdu, base |-> base, k |-> k, open |-> open,
     arg |-> arg, res |-> res]

NoBuilt == Call("none", 0, <<>>, INVOKE_BASE, 0, {}, NoneVal, NoneVal)

\* the variables the codec does not touch
idle_vars ==
    <<rx, peerClosed, wire, sync, sock, pc, call, todo, log, outcome, delivered,
      pending, ready, lastEnd, faults, nreports>>

\* reset_invoke_id(B)
ResetInvokeId ==
    \E B \in Bases :
        /\ invoke_id' = B
        /\ last' = Call("reset", 0, <<>>, B, 0, last.open, NoneVal, NoneVal)
        /\ UNCHANGED <<calls, idle_vars>>

\* connect() of session s succeeds: reset_invoke_id()
SessionConnect ==
    \E s \in Sessions \ last.open :
        /\ invoke_id' = INVOKE_BASE
        /\ last' = Call("connect", s, <<>>, INVOKE_BASE, 0, last.open \cup {s},
                        NoneVal, NoneVal)
        /\ UNCHANGED <<calls, idle_vars>>

\* close() of session s
SessionClose ==
    \E s \in last.open :
        /\ last' = [last EXCEPT !.op = "close", !.s = s, !.pdu = <<>>,
                                !.open = last.open \ {s}]
        /\ UNCHANGED <<invoke_id, calls, idle_vars>>

\* a builder has returned b to session s
Built(op, s, b) ==
    /\ invoke_id' = b.id
    /\ calls' = calls + 1
    /\ last' = Call(op, s, b.pdu, last.base,
                    IF b.pdu = ValueError THEN last.k ELSE last.k + 1, last.open,
                    NoneVal, NoneVal)
    /\ UNCHANGED idle_vars

\* session s calls encode_mms_get_rcb
BuildGet ==
    \E s \in last.open, d \in DomainIds, i \in ItemIds :
        /\ calls < MaxBuilt
        /\ Built("get", s, encode_mms_get_rcb_pdu(d, i, invoke_id))

\* session s calls encode_mms_set_rcb_attribute
BuildSet ==
    \E s \in last.open, d \in DomainIds, i \in ItemIds, a \in Attributes,
       v \in SetValues :
        /\ calls < MaxBuilt
        /\ Built("set", s, encode_mms_set_rcb_attribute(d, i, a, v, invoke_id))

\* session s calls encode_mms_initiate while it connects
BuildInitiate ==
    \E s \in Sessions \ last.open :
        /\ last' = [last EXCEPT !.op = "initiate", !.s = s,
                                !.pdu = encode_mms_initiate]
        /\ UNCHANGED <<invoke_id, calls, idle_vars>>

\* a value of the codec with the MMS type it is encoded as
Typed(kind, v) == [kind |-> kind, v |-> v]

\* the lengths of the strings tried: empty, short, and around the end of the
\* BER short form
StringLens == (0..8) \cup (120..130) \cup {254, 255}

CodecValues ==
    {Typed("boolean", BoolVal(x)) : x \in BOOLEAN}
    \cup {Typed("unsigned", IntVal(n)) :
            n \in {0, 1, 127, 128, 255, 256, 2000, 65535, 65536, 70000, 16777215,
                   16777216, INT_SAT - 1}}
    \cup {Typed("visible-string", StrVal(Name(65, n))) : n \in StringLens}
    \cup {Typed("octet-string", HexVal(Name(7, n))) : n \in StringLens}
    \cup {Typed("bit-string", HexVal(<<0>> \o Name(255, n))) : n \in 0..8}

\* the encoder of each type
encode_value(a) ==
    CASE a.kind = "boolean" -> encode_mms_value_boolean(a.v.n = 1)
      [] a.kind = "unsigned" -> encode_mms_value_unsigned(a.v.n)
      [] a.kind = "visible-string" -> encode_ia5(a.v.b)
      [] a.kind = "octet-string" -> encode_mms_value_octetstring(a.v.b)
      [] a.kind = "bit-string" -> encode_mms_value_bitstring(a.v.b)

\* the decoder of each type
decode_value(kind, data) ==
    CASE kind = "boolean" -> ber_decode_boolean(data, 0)
      [] kind = "unsigned" -> ber_decode_unsigned(data, 0)
      [] kind = "visible-string" -> ber_decode_visible_string(data, 0)
      [] kind = "octet-string" -> ber_decode_octet_string(data, 0)
      [] kind = "bit-string" -> ber_decode_bit_string(data, 0)

\* the value a is encoded and the bytes enc are decoded again
Decoded(a, enc) ==
    /\ last' = Call("roundtrip", 0, enc, last.base, last.k, last.open, a,
                    decode_value(a.kind, enc))
    /\ UNCHANGED <<invoke_id, calls, idle_vars>>

RoundTrip == \E a \in CodecValues : Decoded(a, encode_value(a))

\* the largest payload a TPKT holds: 0xFFFF less the 4 bytes of the header
MAX_TPKT_PAYLOAD == 65531

\* payload lengths handed to send_tpkt: short ones, and around the limit
SendLens ==
    (0..MaxPayloadLen) \cup ((MAX_TPKT_PAYLOAD - 2)..(MAX_TPKT_PAYLOAD + 3))

\* send_tpkt(payload) has returned s: what it raised and what it wrote
Sent(n, s) ==
    /\ last' = Call("send_tpkt", 0, Slice(s.bytes, 0, 4), last.base, last.k,
                    last.open, IntVal(n),
                    [raised |-> s.raised, written |-> Len(s.bytes)])
    /\ UNCHANGED <<invoke_id, calls, idle_vars>>

\* send_tpkt on a payload of n bytes
SendTpkt == \E n \in SendLens : Sent(n, send_tpkt(Name(65, n)))

\* the integrity periods enable_reporting is called with: one for each form
\* of _encode_mms_value_unsigned
IntgPds == {100, 2000, 70000}

\* encode_mms_set_rcb, called as enable_reporting calls it
BuildSetRcb ==
    \E d \in DomainIds, i \in ItemIds, rpt_ena \in BOOLEAN, intg_pd_ms \in IntgPds :
        /\ calls < MaxBuilt /\ last.k < MaxBuilt
        /\ LET b == encode_mms_set_rcb_pdus(d, i, rpt_ena, intg_pd_ms, invoke_id)
           IN /\ invoke_id' = b.id
              /\ last' = Call("set_rcb", 0, b.pdus, last.base, last.k + b.n,
                              last.open,
                              [domain_id |-> d, item_id |-> i, rpt_ena |-> rpt_ena,
                               intg_pd_ms |-> intg_pd_ms],
                              NoneVal)
        /\ calls' = calls + 1
        /\ UNCHANGED idle_vars

\* the PDUs decode_mms_pdu is given: nothing, handshake, request and response
\* PDUs, and reports, one of them with an odd tag, whole and cut at every
\* length
ReceivedPdus ==
    {InitRespPdu, ResponsePdu(INVOKE_BASE), CutReportPdu, encode_mms_initiate,
     encode_mms_get_rcb_pdu(Name(68, 1), Name(73, 1), INVOKE_BASE).pdu}
    \cup {SubSeq(ReportPdu(1), 1, n) : n \in 0..Len(ReportPdu(1))}
    \cup {SubSeq(OddReportPdu, 1, n) : n \in 0..Len(OddReportPdu)}
    \cup {SubSeq(ResponsePdu(INVOKE_BASE), 1, n) : n \in 0..Len(ResponsePdu(INVOKE_BASE))}

\* a TLV as a BER encoder writes it, the length in the long form from 128 on
BerTlv(tag, content) ==
    IF Len(content) < 128 THEN <<tag, Len(content)>> \o content
    ELSE <<tag, 129, Len(content)>> \o content

\* the Data values of a report in the order of the IEC 61850 convention:
\* RptID "A", OptFlds, SeqNum 7, TimeOfEntry, DatSet "DS", BufOvfl false,
\* EntryID, Inclusion, then two members, a structure and a string of 130
\* characters
ReportValues ==
    <<(<<138, 1, 65>>), (<<132, 2, 6, 64>>), (<<134, 1, 7>>),
      (<<140, 6, 90, 155, 228, 0, 128, 0>>), (<<138, 2, 68, 83>>), (<<131, 1, 0>>),
      (<<137, 2, 0, 1>>), (<<132, 2, 6, 128>>), (<<162, 3, 133, 1, 9>>),
      BerTlv(138, Name(65, 130))>>

Reversed(q) == [i \in 1..Len(q) |-> q[Len(q) + 1 - i]]

\* the lists of Data values the reports given to the decoder hold: the first
\* n of the values above, in that order and in the opposite one
ReportLists ==
    {SubSeq(ReportValues, 1, n) : n \in 0..Len(ReportValues)}
    \cup {SubSeq(Reversed(ReportValues), 1, n) : n \in 0..Len(ReportValues)}

\* an informationReport whose listOfAccessResult holds the Data values vals
ReportWith(vals) ==
    PREFIX \o BerTlv(97, BerTlv(48, <<2, 1, 3>> \o
        BerTlv(160, BerTlv(163, BerTlv(160,
            BerTlv(161, <<>>) \o BerTlv(160, Flatten(vals)))))))

\* decode_mms_pdu on an informationReport holding the Data values vals
DecodeReport ==
    \E vals \in ReportLists :
        /\ last' = Call("decode_report", 0, ReportWith(vals), last.base, last.k,
                        last.open, vals, decode_mms_pdu(ReportWith(vals)))
        /\ UNCHANGED <<invoke_id, calls, idle_vars>>

\* the contents of the time values given to the decoder: the seconds at and
\* around the threshold and the ends of the range, alone, cut short, and
\* followed by a fraction
TimeSeconds ==
    {<<90, 155, 228, 0>>, <<101, 209, 77, 128>>, <<59, 154, 202, 0>>,
     <<59, 154, 201, 255>>, <<0, 0, 0, 0>>, <<0, 0, 0, 1>>, <<127, 255, 255, 254>>,
     <<127, 255, 255, 255>>, <<128, 0, 0, 0>>}
TimeTails == {<<>>, <<128>>, <<128, 0>>, <<0, 1>>, <<128, 0, 0, 24>>}
TimeRaws == {q \o t : q \in TimeSeconds, t \in TimeTails} \cup {<<90, 155, 228>>}

\* _ber_decode_data_value on a binary-time (8c) or utc-time (91) value
DecodeTime ==
    \E tag \in {140, 145}, raw \in TimeRaws :
        /\ last' = Call("decode_time", 0, Tlv(tag, raw), last.base, last.k,
                        last.open, NoneVal, ber_decode_data_value(Tlv(tag, raw), 0))
        /\ UNCHANGED <<invoke_id, calls, idle_vars>>

\* the buffers given to the list decoders: the nine short Data values above,
\* cut at every length
ListBuffers ==
    LET whole == Flatten(SubSeq(ReportValues, 1, 9))
    IN {SubSeq(whole, 1, n) : n \in 0..Len(whole)}

\* _decode_mms_report_list on a buffer, and _ber_decode_structure on the same
\* buffer as the content of a structure (a2)
DecodeList ==
    \E buf \in ListBuffers, structure \in BOOLEAN :
        /\ last' = Call(IF structure THEN "decode_structure" ELSE "decode_list", 0,
                        buf, last.base, last.k, last.open, NoneVal,
                        IF structure
                        THEN [div |-> ber_decode_structure(Tlv(162, buf), 0).div,
                              off |-> ber_decode_structure(Tlv(162, buf), 0).off,
                              n |-> Len(ber_decode_structure(Tlv(162, buf), 0).vals)]
                        ELSE [div |-> decode_mms_report_list(buf, 0).div,
                              off |-> decode_mms_report_list(buf, 0).off,
                              n |-> Len(decode_mms_report_list(buf, 0).entries)])
        /\ UNCHANGED <<invoke_id, calls, idle_vars>>

\* decode_mms_pdu(pdu)
DecodePdu ==
    \E pdu \in ReceivedPdus :
        /\ last' = Call("decode", 0, pdu, last.base, last.k, last.open, NoneVal,
                        decode_mms_pdu(pdu))
        /\ UNCHANGED <<invoke_id, calls, idle_vars>>

InitCodec ==
    /\ rx = <<>>
    /\ peerClosed = FALSE
    /\ wire = <<>>
    /\ sync = TRUE
    /\ last = NoBuilt
    /\ InitSession

NextCodec ==
    \/ ResetInvokeId
    \/ SessionConnect
    \/ SessionClose
    \/ BuildGet
    \/ BuildSet
    \/ BuildInitiate

SpecCodec == InitCodec /\ [][NextCodec]_vars

\* the value codec, the PDU decoder, send_tpkt and encode_mms_set_rcb, each
\* applied to inputs drawn from bounded sets
NextValues ==
    \/ RoundTrip
    \/ DecodePdu
    \/ DecodeReport
    \/ SendTpkt
    \/ BuildSetRcb

SpecValues == InitCodec /\ [][NextValues]_vars

\* the decoders of times and of lists, applied to inputs drawn from bounded sets
NextDecode ==
    \/ DecodeTime
    \/ DecodeList

SpecDecode == InitCodec /\ [][NextDecode]_vars

-----------------------------------------------------------------------------
(* Claims about the framing layer, checked under SpecFrame *)

RECURSIVE WireBytes(_)
\* the bytes the frames of a ghost queue put on the stream
WireBytes(frames) ==
    IF frames = <<>> THEN <<>>
    ELSE LET f == Head(frames)
             b == TpktHeader(f.p) \o f.p
         IN (IF f.cut > 0 THEN SubSeq(b, 1, f.cut) ELSE b) \o WireBytes(Tail(frames))

\* C4: the user data handed to cotp_send_data at one end is what cotp_recv_data
\* returns at the other end, byte for byte, for every user-data length.
C4_CotpRoundTrip ==
    (last.op = "cotp_recv_data" /\ last.sync /\ last.kind = "ok" /\ last.exp.dt)
        => last.data = last.exp.ud

\* C6: send_tpkt writes 03 00 ((len+4)>>8) ((len+4)&0xFF) and then the payload
\* unchanged, and recv_tpkt reading that stream returns exactly the payload:
\* whatever the chunks the bytes arrive in, and frame after frame in order.
C6_TpktRoundTrip ==
    /\ sync => Flatten(rx) = WireBytes(wire)
    /\ (/\ last.op = "recv_tpkt"
        /\ last.sync
        /\ ~last.exp.none
        /\ last.exp.cut = 0
        /\ last.kind # "timeout")
           => (last.kind = "ok" /\ last.data = last.exp.p)

\* a long payload (two-byte length) came back whole with another frame behind it
C6_Witness ==
    /\ last.op = "recv_tpkt"
    /\ last.kind = "ok"
    /\ last.sync
    /\ last.data = LongPayload
    /\ wire # <<>>

\* C7: when the connection closes after a TPKT has started being read, recv_tpkt
\* fails with a TPKT error and never returns EOF.  Stated for the case the claim
\* singles out, the close after the full 4-byte header and before the end of
\* the payload (cut >= 4); the close inside the header is C22's subject.
C7_TruncatedIsError ==
    (last.op = "recv_tpkt" /\ last.sync /\ last.exp.cut >= 4)
        => last.kind = "TPKTError"

\* C8: a read timeout inside recv_tpkt consumes no byte of the stream.
C8_TimeoutConsumesNothing ==
    (last.op = "recv_tpkt" /\ last.kind = "timeout") => last.consumed = 0

-----------------------------------------------------------------------------
(* Claims about the session, checked under Spec *)

\* the call named op has ended and nothing has been called since
Ended(op) == pc = "idle" /\ call.op = op /\ outcome.op = op

Kinds(requests) == [i \in 1..Len(requests) |-> <<requests[i].ev, requests[i].attr>>]

SentRequests == {i \in 1..Len(log) : log[i].ev \in {"Get", "Set"}}

\* C1: a call of enable_reporting that runs to completion has sent the writes
\* ResvTms, IntgPd, TrgOps, OptFlds, PurgeBuf, EntryID, RptEna, GI in that order,
\* each once, after exactly one GetRCBValues when do_get_first is true and
\* after nothing otherwise.
C1_WriteOrder ==
    (Ended("enable_reporting") /\ outcome.res = "ok")
        => Kinds(log) = (IF call.do_get_first THEN <<(<<"Get", "">>)>> ELSE <<>>)
                        \o <<(<<"Set", "ResvTms">>), (<<"Set", "IntgPd">>),
                             (<<"Set", "TrgOps">>), (<<"Set", "OptFlds">>),
                             (<<"Set", "PurgeBuf">>), (<<"Set", "EntryID">>),
                             (<<"Set", "RptEna">>), (<<"Set", "GI">>)>>

\* enable_reporting(do_get_first=True) has returned after its nine requests
C1_Witness ==
    /\ Ended("enable_reporting")
    /\ outcome.res = "ok"
    /\ call.do_get_first
    /\ Len(log) = 9
    /\ log[9].attr = "GI"

\* C2: on a session that connect() has set up, the PDU that ends the wait for
\* a request of enable_reporting is the peer's response to that request, so the
\* next request is never sent before it.
C2_StopAndWait ==
    (ready /\ lastEnd.by # "none")
        => (lastEnd.by = "response" /\ lastEnd.id = lastEnd.req)

\* C3: on a session that connect() has set up and with a report callback, an
\* informationReport that arrives while enable_reporting awaits a response
\* does not end the wait.
C3_ReportDoesNotEndWait ==
    (ready /\ call.op = "enable_reporting" /\ call.cb) => lastEnd.by # "report"

\* C5: connect() goes through open TCP, send CR, receive CC, send Initiate,
\* receive the Initiate response, reset the invoke-ID in that order, and no
\* Get/Set request is sent on a connection before its Initiate response has
\* been received.
C5_ConnectOrder ==
    /\ call.op = "connect" =>
          \E n \in 0..6 :
              Kinds(log) = SubSeq(<<(<<"tcp_open", "">>), (<<"CR", "">>), (<<"CC", "">>),
                                    (<<"Initiate", "">>), (<<"InitResp", "">>),
                                    (<<"reset_invoke_id", "">>)>>, 1, n)
    /\ SentRequests # {} => ready

\* C9: when connect() raises, the socket has been closed and _sock is None.
C9_ConnectFailureCloses ==
    (Ended("connect") /\ outcome.res # "ok") => sock = "None"

\* C10: when enable_reporting or loop_reports ends with a transport, TPKT or
\* COTP error, the socket has been closed and _sock is None.
C10_ErrorCloses ==
    (/\ Ended("enable_reporting") \/ Ended("loop_reports")
     /\ outcome.res \in {"OSError", "TPKTError", "COTPError"})
        => sock = "None"

\* the entries of a report are the sole entry {raw_hex}
IsRawHex(report) == Len(report.entries) = 1 /\ report.entries[1].key = "raw_hex"

\* C11: every report handed to a callback has raw_pdu set to the received
\* bytes, and a PDU that decoded to the raw-hex fallback is never handed to
\* the callback (stated for the PDUs that arrived with their bytes intact).
C11_OnlyRecognisedDelivered ==
    \A i \in 1..Len(delivered) :
        /\ delivered[i].has_raw_pdu
        /\ delivered[i].raw_pdu # <<>> => ~IsRawHex(delivered[i])

\* C12: a report whose envelope has an unexpected tag, arriving while
\* enable_reporting (with a callback) awaits a response, is handed to the
\* callback in its {raw_hex} form, and the session stays open.
C12_DowngradedStillDelivered ==
    (ready /\ call.op = "enable_reporting" /\ call.cb /\ lastEnd.by = "oddreport")
        => /\ sock = "open"
           /\ \E i \in 1..Len(delivered) : delivered[i].raw_pdu = OddReportPdu

\* the peer has closed and what is left to read is nothing or part of a frame
OnlyPartLeft == peerClosed /\ sync /\ (wire = <<>> \/ wire[1].cut > 0)

ReportId(report) == IF IsRawHex(report) THEN 0 ELSE report.entries[1].val.n

Callbacks == {i \in 1..Len(log) : log[i].ev = "callback"}

\* C14: the reports handed to the callback are the informationReports received,
\* in arrival order, none dropped, duplicated or reordered: a report that
\* arrives during a wait of enable_reporting (with a callback) is delivered, the
\* i-th callback of loop_reports for a report frame gets that report decoded,
\* and the delivered reports carry increasing numbers.
C14_ReportsInOrder ==
    /\ (ready /\ call.op = "enable_reporting" /\ call.cb /\ lastEnd.by = "report")
          => \E i \in 1..Len(delivered) : ReportId(delivered[i]) = lastEnd.id
    /\ (ready /\ call.op = "loop_reports") =>
          \A i \in Callbacks :
              log[i].attr = "report" =>
                  ~IsRawHex(delivered[Len(delivered) - Cardinality(Callbacks) + i])
    /\ \A i, j \in 1..Len(delivered) :
          (i < j /\ ~IsRawHex(delivered[i]) /\ ~IsRawHex(delivered[j]))
              => ReportId(delivered[i]) < ReportId(delivered[j])

-----------------------------------------------------------------------------
(* Claims about the codec, checked under SpecCodec *)

IsRequest(c) == c.op \in {"get", "set"} /\ c.pdu # ValueError

\* C15: after reset_invoke_id(B), the k-th request built, Get or Set, carries
\* the invoke-ID (B + k - 1) mod 2^16 in its field 02 02 hi lo; connect()
\* resets the base to 0x012C
C15_InvokeIdOfKthRequest ==
    IsRequest(last) =>
        Slice(last.pdu, 15, 19) = invoke_part((last.base + last.k - 1) % 65536)

\* C16: the invoke-ID counter is session-local: a connect() or a request of
\* one session leaves unchanged the invoke-ID that the next request of
\* another connected session carries (in runs where the base is the one
\* connect() sets)
C16_CounterIsSessionLocal ==
    [][\A s \in last.open :
          (last.base = INVOKE_BASE /\ last'.op \in {"connect", "get", "set"}
                /\ last'.s # s)
              => invoke_id' = invoke_id]_vars

\* C17: every PDU the client emits as COTP user data (Initiate, GetRCBValues,
\* each SetRCBValues) begins with 01 00 01 00 and an APPLICATION-1 wrapper
\* (61) whose content is a SEQUENCE (30) carrying 02 01 03 and a [0] wrapper
C17_EmittedPduEnvelope ==
    (last.op \in {"initiate", "get", "set"} /\ last.pdu # ValueError) =>
        /\ StartsWith(last.pdu, PREFIX)
        /\ Len(last.pdu) >= 12
        /\ At(last.pdu, 4) = 97
        /\ At(last.pdu, 6) = 48
        /\ Slice(last.pdu, 8, 11) = <<2, 1, 3>>
        /\ At(last.pdu, 11) = 160

\* a tag of a constructed TLV (bit 6 set): its content is TLVs again
IsConstructed(tag) == (tag \div 32) % 2 = 1

RECURSIVE Coherent(_)
\* data is a run of TLVs, each with a length field that, read by the BER
\* rules, counts exactly the bytes of its content, at every depth
Coherent(data) ==
    IF data = <<>> THEN TRUE
    ELSE LET l == ber_read_length(data, 1)
             o == 1 + l.n
         IN /\ l.n > 0
            /\ o + l.length <= Len(data)
            /\ IsConstructed(data[1]) => Coherent(Slice(data, o, o + l.length))
            /\ Coherent(From(data, o + l.length))

\* C18: in every PDU encode_mms_get_rcb or encode_mms_set_rcb_attribute
\* returns, each nested TLV's length field equals the byte count of its
\* content, also when a content is 128 bytes or longer
C18_LengthCoherence ==
    IsRequest(last) => Coherent(From(last.pdu, Len(PREFIX)))

-----------------------------------------------------------------------------
(* Claims about the value codec and the PDU decoder, checked under          *)
(* SpecValues                                                                *)

\* C19: decode(encode(v)) = v, the decoder consuming exactly the encoded
\* bytes, for booleans, unsigned integers, visible strings and octet strings
\* of 0..255 bytes, and bit strings
C19_CodecRoundTrip ==
    last.op = "roundtrip" =>
        /\ last.res.val = last.arg.v
        /\ last.res.off = Len(last.pdu)

\* the content of the TLV at the head of data, by its length field
Content(data) ==
    LET l == ber_read_length(data, 1)
    IN Slice(data, 1 + l.n, 1 + l.n + l.length)

HasTag(data, tag) == Len(data) >= 2 /\ data[1] = tag

\* the a1 ... a0 ... pair at the end of the envelope: the [0] list after the
\* [1] element, holding at least one Data value
ListAfterA1(data) ==
    /\ HasTag(data, 161)
    /\ HasTag(From(data, ber_skip(data, 0)), 160)
    /\ Content(From(data, ber_skip(data, 0))) # <<>>

\* the envelope 61 / 30 / 02 01 03 / a0 / a3 / a0 / a1 / a0 is there, step by
\* step, after the optional prefix
WalksEnvelope(data) ==
    /\ HasTag(data, 97)
    /\ HasTag(Content(data), 48)
    /\ StartsWith(Content(Content(data)), <<2, 1, 3>>)
    /\ HasTag(From(Content(Content(data)), 3), 160)
    /\ HasTag(Content(From(Content(Content(data)), 3)), 163)
    /\ HasTag(Content(Content(From(Content(Content(data)), 3))), 160)
    /\ ListAfterA1(Content(Content(Content(From(Content(Content(data)), 3)))))

Unprefixed(pdu) == IF StartsWith(pdu, PREFIX) THEN From(pdu, Len(PREFIX)) ELSE pdu

\* C20: decode_mms_pdu returns an MMSReport for every byte string, and when
\* the envelope walk fails at any step or yields no Data value the report's
\* sole entry is raw_hex, the hex of the whole PDU
C20_DecoderIsTotal ==
    last.op = "decode" =>
        /\ ~last.res.div
        /\ ~WalksEnvelope(Unprefixed(last.pdu)) =>
              last.res.entries = <<[key |-> "raw_hex", val |-> HexVal(last.pdu)]>>

-----------------------------------------------------------------------------
(* Claims about cotp_connect and recv_tpkt, checked under SpecFrame *)

\* cotp_connect has read the stream in step with the frames the peer wrote
ConnectRead == last.op = "cotp_connect" /\ last.sync

\* the TPDU has type 0xD0 and its LI + 1 does not exceed its length
TypeAndLiFit(p) == Len(p) >= 2 /\ At(p, 1) = 208 /\ At(p, 0) + 1 <= Len(p)

\* C21 as stated: cotp_connect succeeds exactly when the first TPDU received
\* after the CR has type 0xD0 and LI + 1 <= its length; a TPDU of another type
\* raises COTPError, and so does EOF
C21_CcAcceptedByTypeAndLi ==
    ConnectRead =>
        /\ last.kind = "ok" <=> (last.read = "ok" /\ TypeAndLiFit(last.exp.p))
        /\ (last.read = "ok" /\ ~TypeAndLiFit(last.exp.p)) => last.kind = "COTPError"
        /\ last.read = "eof" => last.kind = "COTPError"

\* C21 amended: cotp_connect succeeds exactly when the first TPDU received
\* after the CR is at least 7 bytes long, has type 0xD0 and LI + 1 <= its
\* length; any other TPDU raises COTPError, and so does EOF
C21_CcAcceptedFromSevenBytes ==
    ConnectRead =>
        /\ last.kind = "ok" <=>
              (last.read = "ok" /\ Len(last.exp.p) >= 7 /\ TypeAndLiFit(last.exp.p))
        /\ (last.read = "ok" /\ ~(Len(last.exp.p) >= 7 /\ TypeAndLiFit(last.exp.p)))
              => last.kind = "COTPError"
        /\ last.read = "eof" => last.kind = "COTPError"

\* a CC followed by bytes its LI does not count was accepted
C21_Witness ==
    /\ ConnectRead
    /\ last.kind = "ok"
    /\ Len(last.exp.p) > At(last.exp.p, 0) + 1

\* C22: recv_tpkt returns EOF (None), not an error, when the connection is
\* closed before any header byte arrives, and also when it is closed after
\* only 1 to 3 bytes of the header have arrived
C22_EofInsideHeader ==
    (/\ last.op = "recv_tpkt"
     /\ last.sync
     /\ peerClosed
     /\ (last.exp.none \/ last.exp.cut \in 1..3))
        => last.kind = "eof"

\* the connection closed after 3 bytes of a header and the read gave EOF
C22_Witness ==
    /\ last.op = "recv_tpkt"
    /\ last.sync
    /\ last.exp.cut = 3
    /\ last.consumed = 3
    /\ last.kind = "eof"

\* C23: send_tpkt fails exactly when len(payload) > 0xFFFB, and then writes no
\* byte; up to 0xFFFB bytes it never fails on length and writes the header
\* and the payload
C23_OverflowExactlyAboveFFFB ==
    last.op = "send_tpkt" =>
        /\ last.res.raised <=> last.arg.n > 65531
        /\ last.res.raised => last.res.written = 0
        /\ ~last.res.raised =>
              /\ last.res.written = last.arg.n + 4
              /\ last.pdu = <<3, 0, (last.arg.n + 4) \div 256, (last.arg.n + 4) % 256>>

\* a payload of exactly 0xFFFB bytes was sent
C23_Witness ==
    /\ last.op = "send_tpkt"
    /\ last.arg.n = 65531
    /\ ~last.res.raised
    /\ last.pdu = <<3, 0, 255, 255>>

-----------------------------------------------------------------------------
(* Claims about the session, continued *)

\* a whole informationReport is the next frame of the stream
ReportAtHead == sync /\ wire # <<>> /\ wire[1].role = "report" /\ wire[1].cut = 0

\* the callback has just been given the report that was at the head
HeadDelivered ==
    /\ Len(delivered') = Len(delivered) + 1
    /\ ReportId(delivered'[Len(delivered')]) = wire[1].id

\* C24: a read timeout in loop_reports is never fatal: it neither ends the
\* loop nor closes the socket, and a report that arrives, however many
\* timeouts there are before or while it arrives, is still delivered to the
\* callback.  On a session that connect() has set up: while a whole report is
\* the next frame, every step leaves it there or delivers it, and the loop
\* goes on with the socket open
C24_TimeoutNotFatal ==
    [][(pc = "loop" /\ ready /\ ReportAtHead)
          => /\ pc' = "loop"
             /\ sock' = sock
             /\ \/ ReportAtHead' /\ wire'[1] = wire[1]
                \/ HeadDelivered]_vars

\* C25: while enable_reporting awaits a Get/Set response, a PDU that is neither
\* an informationReport nor a confirmed response is skipped and the wait goes
\* on: on a session that connect() has set up, no wait is ended by such a PDU
C25_OtherPduSkipped ==
    (ready /\ call.op = "enable_reporting") => lastEnd.by # "other"

\* C26: loop_reports can be cancelled: once the stop flag has been set from
\* outside, the loop exits after the PDU being processed, the flag being
\* checked after each PDU.  On a session that connect() has set up, every
\* turn of the loop that hands a PDU to the callback while a stop is requested
\* leaves the loop
C26_StopFlagEndsLoop ==
    [][(pc = "loop" /\ ready /\ call.stage = "stop" /\ delivered' # delivered)
          => pc' # "loop"]_vars

\* the TPDUs cotp_connect has written, each without its TPKT header
SentTpdus == [i \in 1..Len(last.sent) |-> From(last.sent[i], 4)]

\* the Connection Request as the specification lists it
ListedCr == <<17, 224, 0, 0, 0, 1, 0, 192, 1, 10, 194, 2, 0, 1, 193, 2, 0, 1>>

\* C27 as stated: the Connection Request that cotp_connect sends is exactly
\* the 19-byte sequence 11 e0 00 00 00 01 00 c0 01 0a c2 02 00 01 c1 02 00 01,
\* sent as the first and only TPDU before the CC is awaited
C27_CrIsNineteenBytes ==
    last.op = "cotp_connect"
        => /\ Len(SentTpdus) = 1
           /\ SentTpdus[1] = ListedCr
           /\ Len(SentTpdus[1]) = 19

\* C27, amended: the Connection Request that cotp_connect sends is exactly
\* the 18-byte sequence 11 e0 00 00 00 01 00 c0 01 0a c2 02 00 01 c1 02 00 01,
\* in one TPKT of total length 22, sent as the first and only TPDU before the
\* CC is awaited
C27_CrIsEighteenBytes ==
    last.op = "cotp_connect"
        => /\ Len(SentTpdus) = 1
           /\ SentTpdus[1] = ListedCr
           /\ Len(SentTpdus[1]) = 18
           /\ Slice(last.sent[1], 0, 4) = <<TPKT_VERSION, 0, 0, 22>>

\* cotp_connect has sent its CR and gone on to read a CC
C27_Witness ==
    /\ last.op = "cotp_connect"
    /\ last.sent # <<>>
    /\ last.kind = "ok"

-----------------------------------------------------------------------------
(* Claims about the writes of enable_reporting, checked under SpecValues *)

\* a block: the tag, one byte counting the bytes that follow, and those bytes
Block(tag, content) == <<tag, Len(content)>> \o content

\* the PDU from its a5 element on: the write request after the envelope
\* 01 00 01 00 61 L 30 L 02 01 03 a0 L a0 L 02 02 hi lo
A5Of(pdu) == From(pdu, 19)

\* the name block of a write to attribute attr of item in domain
NameBlock(domain, item, attr) ==
    Block(160, Block(48, Block(160, Block(161,
        Block(26, domain) \o Block(26, item \o <<36>> \o attr)))))

\* the tags the value of each attribute is encoded with: unsigned (85 or 86),
\* bit string (84), boolean (83), octet string (89)
ValueTags(attr) ==
    IF attr \in {"ResvTms", "IntgPd"} THEN {133, 134}
    ELSE IF attr \in {"TrgOps", "OptFlds"} THEN {132}
    ELSE IF attr \in {"PurgeBuf", "RptEna", "GI"} THEN {131}
    ELSE {137}

\* C28: for each attribute enable_reporting writes, the a5 body of the write
\* PDU is exactly two sibling [0] blocks: the name block a0/30/a0/a1 carrying
\* ia5(domain) and ia5(item_id + "$" + attribute), then the value block
\* a0 <len> <value> with the value encoded as the attribute's type; RptEna =
\* true gives the value block a0 03 83 01 01 and IntgPd = 2000 gives
\* a0 04 86 02 07 d0
C28_WriteBody ==
    (last.op = "set_rcb" /\ last.pdu # ValueError) =>
        /\ Len(last.pdu) = 8
        /\ \A j \in 1..8 :
              LET attr == set_attrs[j]
                  a5 == A5Of(last.pdu[j])
                  name == NameBlock(last.arg.domain_id, last.arg.item_id, ascii(attr))
                  value == From(a5, 2 + Len(name))
              IN /\ Len(a5) >= 2 /\ a5[1] = 165 /\ a5[2] = Len(a5) - 2
                 /\ Slice(a5, 2, 2 + Len(name)) = name
                 /\ Len(value) > 2 /\ value[1] = 160 /\ value[2] = Len(value) - 2
                 /\ value[3] \in ValueTags(attr)
                 /\ (attr = "RptEna" /\ last.arg.rpt_ena)
                        => value = <<160, 3, 131, 1, 1>>
                 /\ (attr = "IntgPd" /\ last.arg.intg_pd_ms = 2000)
                        => value = <<160, 4, 134, 2, 7, 208>>

\* enable_reporting's defaults, RptEna = true and IntgPd = 2000, have been
\* encoded into the eight writes
C28_Witness ==
    /\ last.op = "set_rcb"
    /\ last.pdu # ValueError
    /\ last.arg.rpt_ena
    /\ last.arg.intg_pd_ms = 2000

-----------------------------------------------------------------------------
(* Claims about the decoded report, checked under SpecValues *)

\* entry i (counted from 0) of the decoded report, None when there is none
EntryAt(report, i) ==
    IF Len(report.entries) > i THEN report.entries[i + 1].val ELSE NoneVal

\* C29: for a recognised informationReport whose listOfAccessResult holds n
\* Data values, entries has exactly n items in wire order, each the decoded
\* value wrapped as {success: value}, and rpt_id = entry 0, seq_num = entry 2,
\* time_of_entry = entry 3, data_set_name = entry 4, buf_ovfl = entry 5, each
\* None when n is too small; the entries from 8 on are the data-set members
C29_EntriesAndFields ==
    (last.op = "decode_report" /\ ~IsRawHex(last.res)) =>
        LET vals == last.arg
            r == last.res
        IN /\ ~r.div
           /\ Len(r.entries) = Len(vals)
           /\ \A i \in 1..Len(vals) :
                 r.entries[i] = [key |-> "success",
                                 val |-> ber_decode_data_value(vals[i], 0).val]
           /\ r.rpt_id = EntryAt(r, 0)
           /\ r.seq_num = EntryAt(r, 2)
           /\ r.time_of_entry = EntryAt(r, 3)
           /\ r.data_set_name = EntryAt(r, 4)
           /\ r.buf_ovfl = EntryAt(r, 5)

\* a report with all ten values in the order of the convention has been
\* decoded: RptID "A", SeqNum 7, DatSet "DS", BufOvfl false
C29_Witness ==
    /\ last.op = "decode_report"
    /\ last.arg = ReportValues
    /\ Len(last.res.entries) = 10
    /\ last.res.rpt_id = StrVal(<<65>>)
    /\ last.res.seq_num = IntVal(7)
    /\ last.res.data_set_name = StrVal(<<68, 83>>)
    /\ last.res.buf_ovfl = BoolVal(FALSE)
    /\ last.res.entries[9].val.t = "list"

-----------------------------------------------------------------------------
(* Claims about the decoding of times, checked under SpecDecode *)

\* t is an instant of the year 2018, of the year 2024: between the first
\* second of the year and that of the next, in Unix seconds
In2018(t) == 1514764800 <= t /\ t < 1546300800
In2024(t) == 1704067200 <= t /\ t < 1735689600

\* the content of the time value decoded last
TimeRaw == From(last.pdu, 2)

\* C30: binary-time and utc-time decoding picks the epoch by threshold: with s
\* the first 4 bytes big-endian, the decoded instant is s seconds after
\* 1970-01-01 UTC when s >= 1_000_000_000 and s + 441763200 Unix seconds when
\* s < 1_000_000_000, plus frac/65536 s when the 2 fraction bytes are present;
\* 5a 9b e4 00 decodes to an instant of 2018 and 65 d1 4d 80 to one of 2024.
\* Stated for the seconds the decoder takes for an instant, 0 < s < 2^31 - 1
C30_EpochByThreshold ==
    (last.op = "decode_time" /\ Len(TimeRaw) >= 4) =>
        LET s == BigEndian(SubSeq(TimeRaw, 1, 4))
            frac == IF Len(TimeRaw) >= 6 THEN BigEndian(SubSeq(TimeRaw, 5, 6)) ELSE 0
            t == last.res.val
        IN (0 < s /\ s < INT_SAT) =>
              /\ t.t = "iso"
              /\ t.n = (IF s >= 1000000000 THEN s ELSE s + 441763200)
              /\ t.b = <<frac>>
              /\ SubSeq(TimeRaw, 1, 4) = <<90, 155, 228, 0>> => In2018(t.n)
              /\ SubSeq(TimeRaw, 1, 4) = <<101, 209, 77, 128>> => In2024(t.n)

-----------------------------------------------------------------------------
(* Claims about the list decoders, checked under SpecDecode *)

\* C31: decoding a report list terminates on every input: each iteration of
\* the loop of _decode_mms_report_list, and of the member loop of
\* _ber_decode_structure, strictly advances the offset or stops the loop, also
\* when the buffer ends in a cut TLV such as a boolean 83 with fewer than 3
\* bytes left
C31_ListDecodingTerminates ==
    last.op \in {"decode_list", "decode_structure"} => ~last.res.div

-----------------------------------------------------------------------------
(* Claims about cotp_recv_data, checked under SpecFrame *)

\* p is a DT TPDU: its type byte is 0xF0
IsDt(p) == Len(p) >= 2 /\ p[2] = 240

\* C32: cotp_recv_data silently skips every TPDU whose type is not 0xF0 and
\* returns the user data of the next DT TPDU; it returns EOF exactly when the
\* TPKT receive returns EOF, and skipping never reorders or drops a DT TPDU.
\* For a call made with the stream in step with the frames written: the
\* frames it passed over are no DT TPDUs; when it returns data, that is the
\* user data (the bytes after the 3-byte header) of the first DT TPDU in the
\* queue; it returns EOF only once the peer has closed; and it raises
\* COTPError for no TPDU of another type (of 3 bytes or more)
C32_SkipsOnlyNonDt ==
    [][(sync /\ last'.op = "cotp_recv_data")
          => LET n == last'.nframes
                 passed == IF last'.kind = "ok" THEN n - 1 ELSE n
             IN /\ last'.kind \in {"ok", "eof"} =>
                      \A i \in 1..passed : i <= Len(wire) => ~IsDt(wire[i].p)
                /\ last'.kind = "ok" =>
                      /\ n \in 1..Len(wire)
                      /\ IsDt(wire[n].p)
                      /\ last'.data = From(wire[n].p, 3)
                /\ last'.kind = "eof" => peerClosed
                /\ (last'.kind = "COTPError" /\ n \in 1..Len(wire)
                        /\ Len(wire[n].p) >= 3) => IsDt(wire[n].p)]_vars

(* Claims about the session after its handshake, checked under Spec *)

\* the wait for the response to an attribute write is ended by the end of the
\* stream
EofEndsWriteWait ==
    /\ pc = "enable_wait"
    /\ log # <<>>
    /\ log[Len(log)].ev = "Set"
    /\ lastEnd' # lastEnd
    /\ lastEnd'.by = "eof"

\* C33: when the peer closes the connection while enable_reporting awaits the
\* response to an attribute write, the wait ends without raising and the
\* socket stays set: the next attribute write is sent (the call raises only
\* if that sendall fails), and after the last write the call returns normally
C33_EofProceeds ==
    [][EofEndsWriteWait
          => /\ sock = "open" /\ sock' = "open"
             /\ IF todo = <<>>
                THEN pc' = "idle" /\ outcome' = [op |-> "enable_reporting", res |-> "ok"]
                        /\ log' = log
                ELSE \/ /\ pc' = "enable_wait"
                        /\ log' = Append(log, Head(todo))
                        /\ todo' = Tail(todo)
                     \/ /\ pc' = "idle"
                        /\ outcome' = [op |-> "enable_reporting", res |-> "OSError"]
                        /\ log' = log]_vars

\* an attribute write was sent after the end of the stream had ended the wait
\* for the response to the write before it
C33_Witness ==
    /\ pc = "enable_wait"
    /\ call.op = "enable_reporting"
    /\ sock = "open"
    /\ peerClosed
    /\ lastEnd.by = "eof"
    /\ Len(log) >= 2
    /\ log[Len(log)].ev = "Set"
    /\ log[Len(log) - 1].ev = "Set"
    /\ lastEnd.req = log[Len(log) - 1].inv

-----------------------------------------------------------------------------
(* Claims about invalid time values, checked under SpecDecode *)

\* C34: a binary-time or utc-time value that is invalid (fewer than 4 value
\* bytes, or seconds >= 2^31, that is the top bit of the first byte set)
\* decodes to the hex string of its raw value bytes, and every value with at
\* least 4 bytes and seconds in 0..2^31-1 decodes to an ISO-8601 UTC string
C34_InvalidTimeIsHex ==
    last.op = "decode_time" =>
        IF Len(TimeRaw) < 4 \/ TimeRaw[1] >= 128
        THEN last.res.val = HexVal(TimeRaw)
        ELSE last.res.val.t = "iso"

-----------------------------------------------------------------------------
(* Claims about the session as a whole, checked under Spec *)

\* C35: when enable_reporting is called without a report_callback, an
\* informationReport that arrives while a response is awaited does not end the
\* wait: on a session that connect() has set up, the wait ends only on a
\* confirmed response or on the end of the stream, never on the report
C35_ReportIgnoredWithoutCallback ==
    (ready /\ call.op = "enable_reporting" /\ ~call.cb /\ lastEnd.by # "none")
        => lastEnd.by # "report"

\* C36: a connect() call returns normally only if, on the socket the session
\* now holds, a Connection Confirm was validated and an Initiate response was
\* received, also when an earlier connect() on the same client object failed
C36_ConnectReturnsOnlyAfterHandshake ==
    (Ended("connect") /\ outcome.res = "ok") => (sock = "open" /\ ready)

\* C37: connect() on an already connected session is a no-op: it opens no new
\* TCP connection, sends no PDU and leaves the invoke-ID counter unchanged, so
\* that the invoke-IDs of later requests continue the running sequence
C37_ConnectOnConnectedIsNoop ==
    [][(pc = "idle" /\ sock = "open" /\ ready /\ calls' = calls + 1
        /\ call'.op = "connect")
          => /\ pc' = "idle"
             /\ outcome' = [op |-> "connect", res |-> "ok"]
             /\ log' = <<>>
             /\ UNCHANGED <<sock, ready, rx, peerClosed, wire, sync, pending,
                            invoke_id, delivered>>]_vars

\* connect() has returned at once on a connected session whose counter had
\* moved on from its base
C37_Witness ==
    /\ Ended("connect")
    /\ outcome.res = "ok"
    /\ log = <<>>
    /\ sock = "open"
    /\ ready
    /\ invoke_id # INVOKE_BASE

\* C38: close() always leaves _sock None, whether a socket was held or not,
\* and on a session without a socket enable_reporting and loop_reports raise
\* MMSConnectionError without sending any byte, without invoking the callback
\* and without consuming an invoke-ID
C38_ClosedSessionRefuses ==
    [][(pc = "idle" /\ calls' = calls + 1)
          => /\ call'.op = "close" =>
                    /\ sock' = "None"
                    /\ pc' = "idle"
                    /\ outcome' = [op |-> "close", res |-> "ok"]
                    /\ UNCHANGED <<invoke_id, delivered>>
             /\ (sock = "None" /\ call'.op \in {"enable_reporting", "loop_reports"}) =>
                    /\ pc' = "idle"
                    /\ outcome' = [op |-> call'.op, res |-> "MMSConnectionError"]
                    /\ log' = <<>>
                    /\ UNCHANGED <<sock, rx, wire, pending, delivered, invoke_id>>]_vars

\* enable_reporting has raised MMSConnectionError on a session closed after
\* an earlier call
C38_Witness ==
    /\ Ended("enable_reporting")
    /\ outcome.res = "MMSConnectionError"
    /\ sock = "None"
    /\ log = <<>>
    /\ calls >= 2

-----------------------------------------------------------------------------
(* victoriametrics_push: the batchers, the session threads that push reports *)
(* and the background flush threads. The state of the module is the record   *)
(* held by last: _Batcher._instances, each batcher's _buffer and             *)
(* _flush_thread, every thread's position and locals, and the POST calls     *)
(* made so far.                                                              *)

MaxLines == 2           \* Prometheus lines produced by all reports together
MaxPerPush == 2         \* lines of one report
MaxThreads == 2         \* flush threads ever created

DEFAULT_BATCH_SIZE_MAX == 500

\* the session threads, the base URLs they push to, and the batch_max_lines
\* they pass
SessionThreads == {1, 2}
Urls == {"a", "b"}
BatchSizes == {2, DEFAULT_BATCH_SIZE_MAX}

NoThread == [state |-> "unborn", url |-> "", to_send |-> <<>>]
IdleSession == [pc |-> "idle", url |-> "", lines |-> <<>>, to_send |-> <<>>]

InitBatcher ==
    /\ rx = <<>>
    /\ peerClosed = FALSE
    /\ wire = <<>>
    /\ sync = TRUE
    /\ last = [instances |-> {},
               made |-> [u \in Urls |-> 0],
               max_lines |-> [u \in Urls |-> 0],
               buffer |-> [u \in Urls |-> <<>>],
               flush_thread |-> [u \in Urls |-> 0],
               thread |-> [k \in 1..MaxThreads |-> NoThread],
               session |-> [t \in SessionThreads |-> IdleSession],
               posts |-> <<>>,
               added |-> {},
               nlines |-> 0]
    /\ InitSession

\* Thread.is_alive(): started and not yet ended
is_alive(th) == th.state \in {"wait", "post"}

\* _Batcher.get, under _Batcher._lock: the batcher of base_url, made on the
\* first call
get(b, base_url, max_lines) ==
    IF base_url \in b.instances THEN b
    ELSE [b EXCEPT !.instances = @ \cup {base_url},
                   !.made[base_url] = @ + 1,
                   !.max_lines[base_url] = max_lines]

\* _take_buffer with the lines left in the buffer
take_buffer_keeps(buffer) == [to_send |-> buffer, buffer |-> buffer]

\* _Batcher._take_buffer, called with _buffer_lock held
take_buffer(buffer) == [to_send |-> buffer, buffer |-> <<>>]

\* _do_post_impl: one HTTP POST of the lines
do_post_impl(b, base_url, lines) ==
    [b EXCEPT !.posts = Append(@, [url |-> base_url, lines |-> lines])]

\* push_mms_report up to the call of add: no lines, the immediate POST when
\* batch_interval_sec <= 0, else _Batcher.get
PushMmsReport(t) ==
    \E base_url \in Urls, n \in 0..MaxPerPush, immediate \in BOOLEAN,
       batch_max_lines \in BatchSizes :
        LET lines == [i \in 1..n |-> last.nlines + i]
            b == [last EXCEPT !.nlines = @ + n]
        IN /\ last.session[t].pc = "idle"
           /\ last.nlines + n <= MaxLines
           /\ last' = IF n = 0 THEN last
                      ELSE IF immediate THEN do_post_impl(b, base_url, lines)
                      ELSE [get(b, base_url, batch_max_lines)
                               EXCEPT !.session[t] = [pc |-> "add", url |-> base_url,
                                                      lines |-> lines, to_send |-> <<>>]]
           /\ UNCHANGED <<invoke_id, calls, idle_vars>>

\* _Batcher.add, the part under _buffer_lock
Add(t) ==
    LET s == last.session[t]
        u == s.url
        extended == last.buffer[u] \o s.lines
        taken == IF Len(extended) >= last.max_lines[u] THEN take_buffer(extended)
                 ELSE [to_send |-> <<>>, buffer |-> extended]
    IN /\ s.pc = "add"
       /\ last' = [last EXCEPT !.buffer[u] = taken.buffer,
                               !.added = @ \cup {s.lines[i] : i \in 1..Len(s.lines)},
                               !.session[t].to_send = taken.to_send,
                               !.session[t].pc = IF taken.to_send # <<>> THEN "add_post"
                                                 ELSE "ensure"]
       /\ UNCHANGED <<invoke_id, calls, idle_vars>>

\* _Batcher.add, the POST of a full buffer; an exception that _do_post_impl
\* does not catch ends push_mms_report
AddPost(t) ==
    \E ok \in BOOLEAN :
        LET s == last.session[t]
        IN /\ s.pc = "add_post"
           /\ last' = [do_post_impl(last, s.url, s.to_send)
                          EXCEPT !.session[t] = IF ok THEN [s EXCEPT !.pc = "ensure",
                                                                     !.to_send = <<>>]
                                                ELSE IdleSession]
           /\ UNCHANGED <<invoke_id, calls, idle_vars>>

\* ensure_started: the test of _flush_thread
EnsureStarted(t) ==
    LET s == last.session[t]
        k == last.flush_thread[s.url]
    IN /\ s.pc = "ensure"
       /\ last' = [last EXCEPT !.session[t] =
                       IF k # 0 /\ is_alive(last.thread[k]) THEN IdleSession
                       ELSE [s EXCEPT !.pc = "create"]]
       /\ UNCHANGED <<invoke_id, calls, idle_vars>>

\* ensure_started: _flush_thread = threading.Thread(...)
EnsureCreate(t) ==
    \E k \in 1..MaxThreads :
        LET s == last.session[t]
        IN /\ s.pc = "create"
           /\ last.thread[k].state = "unborn"
           /\ \A j \in 1..(k - 1) : last.thread[j].state # "unborn"
           /\ last' = [last EXCEPT !.thread[k] = [NoThread EXCEPT !.state = "created",
                                                                  !.url = s.url],
                                   !.flush_thread[s.url] = k,
                                   !.session[t].pc = "start"]
           /\ UNCHANGED <<invoke_id, calls, idle_vars>>

\* ensure_started: _flush_thread.start(), on the thread _flush_thread holds
\* now; a thread started already raises RuntimeError
EnsureStart(t) ==
    LET s == last.session[t]
        k == last.flush_thread[s.url]
    IN /\ s.pc = "start"
       /\ last' = [last EXCEPT !.thread[k].state = IF @ = "created" THEN "wait" ELSE @,
                               !.session[t] = IdleSession]
       /\ UNCHANGED <<invoke_id, calls, idle_vars>>

\* push_mms_report_flush: _Batcher.get
PushMmsReportFlush(t) ==
    \E base_url \in Urls :
        /\ last.session[t].pc = "idle"
        /\ last' = [get(last, base_url, DEFAULT_BATCH_SIZE_MAX)
                       EXCEPT !.session[t] = [IdleSession EXCEPT !.pc = "flush",
                                                                 !.url = base_url]]
        /\ UNCHANGED <<invoke_id, calls, idle_vars>>

\* _Batcher.flush, the part under _buffer_lock
Flush(t) ==
    LET s == last.session[t]
        taken == take_buffer(last.buffer[s.url])
    IN /\ s.pc = "flush"
       /\ last' = [last EXCEPT !.buffer[s.url] = taken.buffer,
                               !.session[t] = IF taken.to_send = <<>> THEN IdleSession
                                              ELSE [s EXCEPT !.pc = "flush_post",
                                                             !.to_send = taken.to_send]]
       /\ UNCHANGED <<invoke_id, calls, idle_vars>>

\* _Batcher.flush, the POST
FlushPost(t) ==
    LET s == last.session[t]
    IN /\ s.pc = "flush_post"
       /\ last' = [do_post_impl(last, s.url, s.to_send) EXCEPT !.session[t] = IdleSession]
       /\ UNCHANGED <<invoke_id, calls, idle_vars>>

\* _run_flush_loop: the wait has timed out, the buffer is taken under
\* _buffer_lock
RunFlushLoop(k) ==
    LET th == last.thread[k]
        taken == take_buffer(last.buffer[th.url])
    IN /\ th.state = "wait"
       /\ taken.to_send # <<>>
       /\ last' = [last EXCEPT !.buffer[th.url] = taken.buffer,
                               !.thread[k].to_send = taken.to_send,
                               !.thread[k].state = "post"]
       /\ UNCHANGED <<invoke_id, calls, idle_vars>>

\* _run_flush_loop: the POST; an exception that _do_post_impl does not catch
\* ends the thread
RunFlushPost(k) ==
    \E ok \in BOOLEAN :
        LET th == last.thread[k]
        IN /\ th.state = "post"
           /\ last' = [do_post_impl(last, th.url, th.to_send)
                          EXCEPT !.thread[k].to_send = <<>>,
                                 !.thread[k].state = IF ok THEN "wait" ELSE "dead"]
           /\ UNCHANGED <<invoke_id, calls, idle_vars>>

NextBatcher ==
    \/ \E t \in SessionThreads : PushMmsReport(t)
    \/ \E t \in SessionThreads : Add(t)
    \/ \E t \in SessionThreads : AddPost(t)
    \/ \E t \in SessionThreads : EnsureStarted(t)
    \/ \E t \in SessionThreads : EnsureCreate(t)
    \/ \E t \in SessionThreads : EnsureStart(t)
    \/ \E t \in SessionThreads : PushMmsReportFlush(t)
    \/ \E t \in SessionThreads : Flush(t)
    \/ \E t \in SessionThreads : FlushPost(t)
    \/ \E k \in 1..MaxThreads : RunFlushLoop(k)
    \/ \E k \in 1..MaxThreads : RunFlushPost(k)

SpecBatcher == InitBatcher /\ [][NextBatcher]_vars

-----------------------------------------------------------------------------
(* Claims about the batchers, checked under SpecBatcher *)

\* the positions of line l in a list
Positions(lines, l) == {i \in 1..Len(lines) : lines[i] = l}

\* how many times line l is in a buffer, in the to_send of a session thread or
\* of a flush thread that has taken it, and in a POST call
InBuffers(b, l) ==
    Cardinality(UNION {{<<u, i>> : i \in Positions(b.buffer[u], l)} : u \in Urls})
InSessionThreads(b, l) ==
    Cardinality(UNION {{<<t, i>> : i \in Positions(b.session[t].to_send, l)} :
                       t \in SessionThreads})
InFlushThreads(b, l) ==
    Cardinality(UNION {{<<k, i>> : i \in Positions(b.thread[k].to_send, l)} :
                       k \in 1..MaxThreads})
InPosts(b, l) ==
    Cardinality(UNION {{<<p, i>> : i \in Positions(b.posts[p].lines, l)} :
                       p \in 1..Len(b.posts)})

\* C39: under any interleaving of add, flush and the background flush loop,
\* every line passed to add is handed to exactly one HTTP POST call: at every
\* moment the line is in exactly one place, the buffer, the to_send of the one
\* thread that took it and is about to post it, or one POST call, so it is
\* never dropped and never posted twice; and flush leaves the buffer empty
C39_EachLineInOnePost ==
    [][/\ \A l \in last'.added :
              /\ InPosts(last', l) <= 1
              /\ InBuffers(last', l) + InSessionThreads(last', l)
                    + InFlushThreads(last', l) + InPosts(last', l) = 1
       /\ \A t \in SessionThreads :
              (last.session[t].pc = "flush" /\ last'.session[t].pc # "flush")
                  => last'.buffer[last.session[t].url] = <<>>]_vars

\* lines added by two calls of add have all been posted, in two POST calls,
\* one of them made by a flush thread that has since gone back to waiting
C39_Witness ==
    /\ Cardinality(last.added) = 2
    /\ \A l \in last.added : InPosts(last, l) = 1
    /\ Len(last.posts) = 2
    /\ \A u \in Urls : last.buffer[u] = <<>>
    /\ \E k \in 1..MaxThreads : last.thread[k].state = "wait"
    /\ \A t \in SessionThreads : last.session[t].pc = "idle"

\* C40: for a given base_url there is at most one _Batcher instance and at
\* most one live background flush thread, even when push_mms_report is
\* called concurrently from several session threads
C40_OneBatcherOneThread ==
    \A u \in Urls :
        /\ last.made[u] <= 1
        /\ Cardinality({k \in 1..MaxThreads :
                           last.thread[k].url = u /\ is_alive(last.thread[k])}) <= 1

====
